---------------------------- MODULE Spec2Model ----------------------------
(***************************************************************************)
(* NodeSentinel: the stateful alert-decision layer of the three monitoring *)
(* loops (crypto_utils.surveillance_task, nodesentinel.monitor_system_task *)
(* and nodesentinel.monitor_lnd_task).                                     *)
(*                                                                         *)
(* Each loop iteration reads `now = time.time()`, samples its collaborators*)
(* and runs its sections one after the other.  The sections of a loop      *)
(* write disjoint local variables (fee level / hardware debouncers / disk  *)
(* cooldowns / service statuses), so each section is modelled as one       *)
(* action that performs that section of one iteration and then sleeps.     *)
(* A behaviour exercises one part of the system, named by scope, so that   *)
(* the parts are explored side by side instead of multiplied.              *)
(* Time is in seconds.  time.time() at start-up is far larger than every   *)
(* cooldown, which is what Epoch stands for.                               *)
(***************************************************************************)
EXTENDS Integers, Sequences, FiniteSets, TLC

(***************************************************************************)
(* Program constants.                                                      *)
(***************************************************************************)
SYS_CHECK_INTERVAL == 60
ALERT_COOLDOWN == 300
PERSISTENCE_COUNT == 3
SURVEILLANCE_INTERVAL == 300
\* Thresholds are read from the environment; the values are those of the
\* code's own comment "LOW <= 5, MEDIUM 6-10, HIGH > 10".
FEE_LOW_THRESHOLD == 5
FEE_MED_THRESHOLD == 10
\* Hardware thresholds, read from the environment too: percent for CPU and
\* RAM, and load per core in hundredths (1.50).
CPU_THRESHOLD_PCT == 80
RAM_THRESHOLD_PCT == 80
LOAD_PER_CORE_THRESHOLD == 150
DISK_THRESHOLD_PCT == 85
\* the chat the bot serves (environment)
CHAT_ID == 1000
\* seconds between two iterations of monitor_lnd_task
LND_CHECK_INTERVAL == 10
\* data['cores'] of get_remote_system_status, never overwritten
Cores == 2
\* price-surveillance thresholds (environment, USD) and windows (seconds)
PRICE_CHANGE_THRESHOLD_LOW == 1000
PRICE_CHANGE_THRESHOLD_HIGH == 3000
PRICE_VOLATILITY_COOLDOWN == 14400
PriceLookback == 7200
PriceHistoryWindow == 14400
\* seconds between two periodic macro reports
MACRO_REPORT_COOLDOWN == 86400
\* age (seconds) beyond which update_fee_history drops a sample
FeeHistoryWindow == 3600

(***************************************************************************)
(* Bounds of the model.                                                    *)
(***************************************************************************)
Epoch == 100000        \* wall-clock time of the first iteration
MaxSurvCycles == 6     \* iterations of surveillance_task explored
MaxSysCycles == 6      \* iterations of monitor_system_task, all readings varying
MaxSoloCycles == 10    \* iterations of monitor_system_task, one reading varying
MaxDiskCycles == 7     \* iterations of monitor_system_task, disk readings varying
MaxSvcCycles == 7      \* iterations of monitor_system_task, service statuses varying
MaxPriceCycles == 4    \* iterations of surveillance_task with a price sample explored
MaxProbeCycles == 5    \* iterations of monitor_system_task, remote commands varying
MaxLndCycles == 3      \* iterations of monitor_lnd_task explored
MaxCommands == 4       \* Telegram commands handled
MaxHistCalls == 4      \* calls of update_fee_history / update_price_history
MaxMacroCycles == 5    \* iterations of surveillance_task explored around the macro report
MaxDeliveryCycles == 5 \* iterations of monitor_system_task with failing deliveries
MaxTaskSteps == 5      \* steps (task iterations and commands) of an interleaving
\* seconds by which two successive readings of time.time() differ beyond the
\* sleep between them: the duration of the iteration, less any step back
\* of the wall clock, which time.time() follows
SurvDelays == {0, 60}
\* fastestFee readings of a successful get_fee_data()
FeeValues == {3, 5, 8, 10, 12}
None == "none"
\* cpu_pct, ram_pct and load1 (in hundredths) of a successful
\* get_remote_system_status()
CpuValues == {70, 80}
RamValues == {70, 80}
Load1Values == {100, 300}
\* usage percent of a mount in the df output
DiskValues == {50, 85}
\* upper-cased tokens of `systemctl is-active`
SvcTokens == {"ACTIVE", "INACTIVE", "FAILED", "ACTIVATING"}
\* results of get_fee_data(): (None, error) or (fees, None)
FeeSamples == {[ok |-> FALSE, fee |-> 0]} \cup {[ok |-> TRUE, fee |-> v] : v \in FeeValues}

VARIABLES
    scope,                \* the part of the system this behaviour exercises
    time,                 \* wall clock at the start of the next iteration
    surv_now,             \* surveillance_task: now
    current_fee_state,    \* surveillance_task: current_fee_state
    last_fee_alert_ts,    \* surveillance_task: last_fee_alert_ts
    LAST_MACRO_REPORT_TS, \* crypto_utils.LAST_MACRO_REPORT_TS
    sent,                 \* the send_alert calls of the latest iteration, in order
    lastKeyed,            \* history: per cooldown key, time of its last alert
    sys_now,              \* monitor_system_task: now
    high_count,           \* monitor_system_task: cpu_/ram_/load_high_count
    is_alert_active,      \* monitor_system_task: is_cpu_/is_ram_/is_load_alert_active
    last_remote_alert,    \* monitor_system_task: last_remote_cpu_/ram_/load_alert
    last_remote_disk_alert,   \* monitor_system_task: last_remote_disk_alert
    last_lnd_service_status,  \* monitor_system_task: last_lnd_service_status
    last_btc_service_status,  \* monitor_system_task: last_btc_service_status
    last_service_alert_ts,    \* monitor_system_task: last_service_alert_ts
    svcObs,               \* history: what the latest service section observed
    sysCycles,            \* history: iterations of monitor_system_task so far
    hwObs,                \* history: what the latest hardware section observed
    hwHist,               \* history: per quantity, summary of its samples and alerts
    probeObs,             \* history: the remote commands of the latest hardware section
    survCycles,           \* history: iterations of surveillance_task so far
    feeObs,               \* history: what the latest fee section observed
    feeHist,              \* history: summary of the successful fee samples so far
    PRICE_HISTORY,        \* crypto_utils.PRICE_HISTORY: records [time, usd], oldest first
    LAST_VOLATILITY_REFERENCE_USD,   \* crypto_utils.LAST_VOLATILITY_REFERENCE_USD
    last_price_volatility_alert_ts,  \* surveillance_task: last_price_volatility_alert_ts
    survRunning,          \* whether surveillance_task is still in its loop
    GEMINI_API_KEY,       \* whether the environment variable GEMINI_API_KEY is set
    priceObs,             \* history: what the latest price section observed
    priceHist,            \* history: summary of the volatility alerts so far
    prev_peers,           \* monitor_lnd_task: prev_peers
    prev_channels,        \* monitor_lnd_task: prev_channels
    prev_settled_invoices,   \* monitor_lnd_task: prev_settled_invoices
    lndCycles,            \* history: iterations of monitor_lnd_task so far
    lndObs,               \* history: what the latest iteration of monitor_lnd_task sampled
    lndHist,              \* history: latest listed sets and error alerts of monitor_lnd_task
    replies,              \* the reply_text calls of the latest command handler, in order
    remote_log,           \* history: the remote commands run by the handlers so far
    cmdCount,             \* history: commands handled so far
    cmdObs,               \* history: the latest command, its chat and the result of its remote command
    FEE_HISTORY,          \* crypto_utils.FEE_HISTORY: records [time, fee], oldest first (followed by the history calls only)
    histCalls,            \* history: calls of update_fee_history / update_price_history so far
    histObs,              \* history: the latest call of each of the two functions
    macroObs,             \* history: what the latest macro section did
    macroHist,            \* history: times of the macro analysis calls
    delivered,            \* per send_alert call of the latest iteration, whether Telegram accepted it
    shadow,               \* history: the debouncer state of the run in which every delivery succeeds
    shadowSent,           \* history: the alerts that run sends in the latest iteration
    prevFailed,           \* history: the alerts whose delivery failed in the iteration before the latest
    actor                 \* history: the task or command handler that ran the latest step

survVars == <<surv_now, current_fee_state, last_fee_alert_ts,
              LAST_MACRO_REPORT_TS, survCycles, feeObs, feeHist>>
hwVars == <<high_count, is_alert_active, last_remote_alert>>
sysVars == <<sys_now, sysCycles>>
hwHistVars == <<hwObs, hwHist, probeObs>>
diskVars == <<last_remote_disk_alert>>
svcVars == <<last_lnd_service_status, last_btc_service_status,
             last_service_alert_ts, svcObs>>
priceVars == <<GEMINI_API_KEY, PRICE_HISTORY, LAST_VOLATILITY_REFERENCE_USD,
               last_price_volatility_alert_ts, survRunning, priceObs, priceHist>>
lndVars == <<prev_peers, prev_channels, prev_settled_invoices, lndCycles,
             lndObs, lndHist>>
cmdVars == <<replies, remote_log, cmdCount, cmdObs>>
histVars == <<FEE_HISTORY, histCalls, histObs>>
macroVars == <<macroObs, macroHist>>
deliveryVars == <<delivered, shadow, shadowSent, prevFailed>>
taskVars == <<actor>>
vars == <<scope, time, sent, lastKeyed, survVars, hwVars, sysVars, hwHistVars,
          diskVars, svcVars, priceVars, lndVars, cmdVars, histVars, macroVars, deliveryVars, taskVars>>

\* The three debounced quantities of monitor_system_task.
Quantities == {"cpu", "ram", "load"}
\* scope "fee": the fee section of surveillance_task.  Scope "hw": the
\* hardware section of monitor_system_task with its three readings varying
\* freely.  Scope "cpu", "ram" or "load": the same section, over more
\* iterations, with only that reading leaving the under-threshold range.
\* Scope "disk": the disk check of that section, the three readings staying
\* under threshold.  Scope "svc": the service section of monitor_system_task.
\* Scope "svcloop": the same section, iterated without end.  Scope "price":
\* whole iterations of surveillance_task (fee section, then price section).
HwScopes == {"hw"} \cup Quantities
KeyedScopes == {"fee", "disk", "svc"} \cup HwScopes
\* the entity families of monitor_lnd_task
LndScopes == {"peers", "channels", "invoices"}
Scopes == KeyedScopes \cup {"svcloop", "price", "probe", "cmd", "hist", "macro",
                            "delivery", "tasks"}
              \cup LndScopes
\* REMOTE_MOUNTS_TO_CHECK, in the order df prints them
Mounts == <<"/", "/mnt/hdd">>
MountSet == {Mounts[i] : i \in DOMAIN Mounts}
\* key = f"remote_{mount}"
DiskKey(m) == IF m = "/" THEN "remote_/" ELSE "remote_/mnt/hdd"
Keys == {"fee", "service"} \cup Quantities \cup {DiskKey(m) : m \in MountSet}

----------------------------------------------------------------------------
(***************************************************************************)
(* Helpers shared by the alert paths.                                      *)
(***************************************************************************)

\* `now - last > cooldown`, the comparison every gated path uses.
CooldownElapsedLoose(now, last) == now - last >= ALERT_COOLDOWN
CooldownElapsed(now, last) == now - last > ALERT_COOLDOWN

\* One send_alert call.  kind/key/info identify the message; ts is the
\* iteration's now; since is the value of the path's cooldown variable when
\* the call is made (-1 when the path has none); prev is the time of the
\* previous alert sent under the same key (0 when there is none).
Alert(kind, key, info, ts, since, prev) ==
    [kind |-> kind, key |-> key, info |-> info, ts |-> ts,
     since |-> since, prev |-> prev]

----------------------------------------------------------------------------
(***************************************************************************)
(* surveillance_task, section 1: fee surveillance.                         *)
(***************************************************************************)

FeeLevelNoMedium(fee) ==
    IF fee > FEE_MED_THRESHOLD THEN "HIGH"
    ELSE IF fee <= FEE_LOW_THRESHOLD THEN "LOW"
    ELSE "NORMAL"
\* new_fee_state: "NORMAL" unless one of the three comparisons assigns it.
FeeLevel(fee) ==
    IF fee > FEE_MED_THRESHOLD THEN "HIGH"
    ELSE IF fee <= FEE_LOW_THRESHOLD THEN "LOW"
    ELSE IF fee > FEE_LOW_THRESHOLD /\ fee <= FEE_MED_THRESHOLD THEN "MEDIUM"
    ELSE "NORMAL"

FeeAlertNeededNoInitCheck(state, new, now, last) ==
    new # state /\ CooldownElapsed(now, last)
FeeAlertNeededNoCooldown(state, new, now, last) ==
    state # "INIT" /\ new # state
\* The condition of the alert branch.
FeeAlertNeeded(state, new, now, last) ==
    state # "INIT" /\ new # state /\ CooldownElapsed(now, last)

\* The send_alert calls of the alert branch: one per target level, and for
\* NORMAL only when the stored level is not NORMAL already.
FeeAlerts(state, new, fee, now, last, prev) ==
    IF new \in {"HIGH", "MEDIUM", "LOW"}
    THEN <<Alert("fee", "fee", [level |-> new, fee |-> fee], now, last, prev)>>
    ELSE IF new = "NORMAL" /\ state # "NORMAL"
    THEN <<Alert("fee", "fee", [level |-> new, fee |-> fee], now, last, prev)>>
    ELSE <<>>


\* The reference run of the fee debounce property: samples, in order.
RefFees == <<3, 3, 8, 12, 12, 3>>

\* History of the successful fee samples: n counts them, lastLevel/lastTs
\* are the level and time of the latest one, spaced tells whether every two
\* successive ones were more than ALERT_COOLDOWN apart, pending whether a
\* sample differing from the stored level went without an alert since the
\* last alert, refPos is the length of the prefix of RefFees the samples
\* have followed so far (-1 once they left it, or were not spaced), and
\* refAlerts the levels alerted on the way.
FeeHist0 ==
    [n |-> 0, lastLevel |-> None, lastTs |-> 0, spaced |-> TRUE,
     pending |-> FALSE, refPos |-> 0, refAlerts |-> <<>>]

FeeHistNext(h, fee, level, before, now, alerts) ==
    LET spaced == h.spaced /\ (h.n = 0 \/ now - h.lastTs > ALERT_COOLDOWN)
        follows == /\ h.refPos >= 0
                   /\ h.refPos < Len(RefFees)
                   /\ spaced
                   /\ RefFees[h.refPos + 1] = fee
    IN  [n |-> h.n + 1, lastLevel |-> level, lastTs |-> now, spaced |-> spaced,
         pending |-> IF alerts # <<>> THEN FALSE
                     ELSE h.pending \/ (before # "INIT" /\ level # before),
         refPos |-> IF follows THEN h.refPos + 1 ELSE -1,
         refAlerts |-> IF follows
                       THEN h.refAlerts \o [i \in 1..Len(alerts) |-> alerts[i].info.level]
                       ELSE <<>>]

\* What the latest fee section saw: the sample, the level computed from it,
\* and the values, before the section ran, of the stored level (before), of
\* the level of the previous successful sample (prevLevel), of the time of
\* the previous fee alert (prevAlert) and of feeHist.pending.
FeeObs0 ==
    [ok |-> FALSE, fee |-> 0, level |-> None, before |-> "INIT",
     prevLevel |-> None, prevAlert |-> 0, pending |-> FALSE]

\* What the loop does with LAST_MACRO_REPORT_TS in the first-run branch.
MacroTimerOnInit(now) == now

\* The fee section of one iteration as a function of the sample: the stored
\* level, the cooldown timestamp and the macro timer after it, and the
\* send_alert calls it makes.
FeeOutcome(s, now) ==
    LET new == FeeLevel(s.fee)
        same == [state |-> current_fee_state, ts |-> last_fee_alert_ts,
                 macro |-> LAST_MACRO_REPORT_TS, alerts |-> <<>>]
    IN  IF ~s.ok THEN same
        ELSE IF FeeAlertNeeded(current_fee_state, new, now, last_fee_alert_ts)
        THEN [same EXCEPT !.state = new, !.ts = now,
                          !.alerts = FeeAlerts(current_fee_state, new, s.fee, now,
                                               last_fee_alert_ts, lastKeyed["fee"])]
        ELSE IF current_fee_state = "INIT"
        THEN [same EXCEPT !.state = new, !.macro = MacroTimerOnInit(now)]
        ELSE same

\* One iteration, fee section: `if fees:` ... through the first-run branch,
\* then the sleep.  s is the result of get_fee_data(), d the time the
\* iteration takes on top of its sleep.
FeeSection(s, d) ==
    LET now == time
        new == FeeLevel(s.fee)
        out == FeeOutcome(s, now)
        obs == [ok |-> s.ok, fee |-> s.fee,
                level |-> IF s.ok THEN new ELSE None,
                before |-> current_fee_state,
                prevLevel |-> feeHist.lastLevel,
                prevAlert |-> lastKeyed["fee"],
                pending |-> feeHist.pending]
    IN  /\ surv_now' = now
        /\ time' = time + SURVEILLANCE_INTERVAL + d
        /\ survCycles' = survCycles + 1
        /\ feeObs' = obs
        /\ sent' = out.alerts
        /\ current_fee_state' = out.state
        /\ last_fee_alert_ts' = out.ts
        /\ LAST_MACRO_REPORT_TS' = out.macro
        /\ lastKeyed' = IF out.alerts # <<>>
                        THEN [lastKeyed EXCEPT !["fee"] = now]
                        ELSE lastKeyed
        /\ feeHist' = IF s.ok
                      THEN FeeHistNext(feeHist, s.fee, new, current_fee_state,
                                       now, out.alerts)
                      ELSE feeHist

SurveillanceFee ==
    /\ scope = "fee"
    /\ survCycles < MaxSurvCycles
    /\ \E s \in FeeSamples, d \in SurvDelays : FeeSection(s, d)
    /\ UNCHANGED <<scope, hwVars, sysVars, hwHistVars, diskVars, svcVars, priceVars,
                   lndVars,
                   cmdVars,
                   histVars,
                   macroVars,
                   deliveryVars,
                   taskVars>>

----------------------------------------------------------------------------
(***************************************************************************)
(* surveillance_task, section 2: BTC price surveillance, in an iteration   *)
(* that runs the fee section first.  The loop body has no try/except: an   *)
(* exception raised in it ends the task.                                   *)
(***************************************************************************)

\* usd prices of a successful get_price_data()
PriceValues == {60000, 61000, 62000}
\* results of get_price_data(): (None, error) or (prices, None)
PriceSamples ==
    {[ok |-> FALSE, usd |-> 0]} \cup {[ok |-> TRUE, usd |-> v] : v \in PriceValues}
\* results of get_fee_data() in these iterations: a failure, a fee of 3
\* sat/vB, or a JSON object whose fastestFee is not a number (bad)
PriceScopeFeeSamples ==
    {[ok |-> FALSE, fee |-> 0, bad |-> FALSE],
     [ok |-> TRUE, fee |-> 3, bad |-> FALSE],
     [ok |-> TRUE, fee |-> 0, bad |-> TRUE]}
\* outcomes of perform_contextual_analysis(): with the key set, the analysis
\* text or the fixed failure text (everything from the request on is inside
\* the try block); with the key not set, os.getenv returns None and the
\* concatenation of the URL, before the try block, raises TypeError
AnalysisResults(keySet) == IF keySet THEN {"ok", "failed"} ELSE {"raised"}
\* number of iterations in which both HTTP fetches fail (they change
\* nothing) that follow a modelled iteration
OutageCycles == {0, 24}
\* seconds between `now = time.time()` and the time.time() that stamps the
\* price sample, after the two HTTP fetches
StampLag == 2

Abs(x) == IF x < 0 THEN -x ELSE x

UpdateFeeHistoryKeepAll(hist, fee, stamp) ==
    Append(hist, [time |-> stamp, fee |-> fee])
\* update_fee_history: append the stamped sample, keep the last hour.
UpdateFeeHistory(hist, fee, stamp) ==
    SelectSeq(Append(hist, [time |-> stamp, fee |-> fee]),
              LAMBDA d : d.time > stamp - FeeHistoryWindow)

\* update_price_history: append the stamped sample, keep the last 4 hours.
UpdatePriceHistory(hist, usd, stamp) ==
    SelectSeq(Append(hist, [time |-> stamp, usd |-> usd]),
              LAMBDA d : d.time > stamp - PriceHistoryWindow)

OldPriceIndexAnyAge(hist, now) == IF hist # <<>> THEN 1 ELSE 0
\* old_price_data = next((d for d in price_history if d['time'] < ...), None):
\* the position of the first entry of the list that is older than the
\* lookback, 0 for None.
OldPriceIndex(hist, now) ==
    IF \E i \in DOMAIN hist : hist[i].time < now - PriceLookback
    THEN CHOOSE i \in DOMAIN hist :
            /\ hist[i].time < now - PriceLookback
            /\ \A j \in 1..(i - 1) : ~(hist[j].time < now - PriceLookback)
    ELSE 0

VolatilityResetNeededAnywhere(ref, usd) == ref # 0
\* The reset check: abs(current - reference) < PRICE_CHANGE_THRESHOLD_LOW / 2.
VolatilityResetNeeded(ref, usd) ==
    ref # 0 /\ 2 * Abs(usd - ref) < PRICE_CHANGE_THRESHOLD_LOW

\* is_significant_change
IsSignificantChange(change) == Abs(change) >= PRICE_CHANGE_THRESHOLD_LOW

VolatilityAlertNeededNoInitCheck(feeState, change, now, last, ref) ==
    /\ IsSignificantChange(change)
    /\ now - last > PRICE_VOLATILITY_COOLDOWN
    /\ ref = 0
VolatilityAlertNeededNoCooldown(feeState, change, now, last, ref) ==
    /\ feeState # "INIT"
    /\ IsSignificantChange(change)
    /\ ref = 0
VolatilityAlertNeededNoReference(feeState, change, now, last, ref) ==
    /\ feeState # "INIT"
    /\ IsSignificantChange(change)
    /\ now - last > PRICE_VOLATILITY_COOLDOWN
\* is_alert_needed
VolatilityAlertNeeded(feeState, change, now, last, ref) ==
    /\ feeState # "INIT"
    /\ IsSignificantChange(change)
    /\ now - last > PRICE_VOLATILITY_COOLDOWN
    /\ ref = 0

\* magnitude
Magnitude(change) ==
    IF Abs(change) >= PRICE_CHANGE_THRESHOLD_HIGH THEN "MAJOR" ELSE "SIGNIFICANT"

\* The price section of one iteration as a function of the price sample p
\* and of the outcome a of the analysis call: the history, the reference and
\* the alert timestamp after it, the send_alert calls it makes, and whether
\* it raised.  feeState is current_fee_state as the fee section left it.
\* The other fields report what the section did: whether it evaluated the
\* volatility, the historical sample it used, the reference it tested.
PriceOutcome(p, a, now, feeState) ==
    LET hist == IF p.ok
                THEN UpdatePriceHistory(PRICE_HISTORY, p.usd, now + StampLag)
                ELSE PRICE_HISTORY
        i == IF p.ok THEN OldPriceIndex(hist, now) ELSE 0
        old == IF i > 0 THEN hist[i] ELSE [time |-> 0, usd |-> 0]
        evaluated == p.ok /\ i > 0 /\ p.usd > 0 /\ old.usd > 0
        change == p.usd - old.usd
        reset == evaluated /\ VolatilityResetNeeded(LAST_VOLATILITY_REFERENCE_USD, p.usd)
        ref == IF reset THEN 0 ELSE LAST_VOLATILITY_REFERENCE_USD
        needed == /\ evaluated
                  /\ VolatilityAlertNeeded(feeState, change, now,
                                           last_price_volatility_alert_ts, ref)
        primary == Alert("volatility", "volatility",
                         [direction |-> IF change > 0 THEN "rose" ELSE "fell",
                          magnitude |-> Magnitude(change),
                          change |-> Abs(change), usd |-> p.usd],
                         now, last_price_volatility_alert_ts, priceHist.lastAlert)
        followup == Alert("analysis", "volatility", [context |-> a], now,
                          last_price_volatility_alert_ts, priceHist.lastAlert)
        raised == needed /\ a = "raised"
    IN  [history |-> hist,
         ref |-> IF needed /\ ~raised THEN p.usd ELSE ref,
         ts |-> IF needed /\ ~raised THEN now ELSE last_price_volatility_alert_ts,
         alerts |-> IF ~needed THEN <<>>
                    ELSE IF raised THEN <<primary>> ELSE <<primary, followup>>,
         raised |-> raised,
         evaluated |-> evaluated, old |-> old, reset |-> reset, tested |-> ref,
         needed |-> needed]

\* What the latest price section saw: whether it ran (the fee section did
\* not raise), the sample, the stored fee level at the alert test, whether
\* the volatility was evaluated and against which historical sample, the
\* reference before the section, whether the section reset it and the
\* reference the alert test read, the time of the previous volatility alert
\* and the price it announced, the outcome of the analysis call when one
\* was made, and whether the section raised.
PriceObs0 ==
    [ran |-> FALSE, ok |-> FALSE, usd |-> 0, feeState |-> "INIT",
     evaluated |-> FALSE, old |-> [time |-> 0, usd |-> 0], refBefore |-> 0,
     reset |-> FALSE, tested |-> 0, prevAlert |-> 0, prevPrice |-> 0,
     analysis |-> None, raised |-> FALSE]

\* History of the volatility alerts: the time of the latest one and the
\* price it announced (0 before the first), whether since then a successful
\* sample came within half the low threshold of that price (returned), and
\* whether since then the section reset the reference (resetSeen);
\* firstSample is the time stamped on the first successful price sample (0
\* before it).
PriceHist0 ==
    [lastAlert |-> 0, lastPrice |-> 0, returned |-> FALSE, resetSeen |-> FALSE,
     firstSample |-> 0]

PriceHistNext(h, p, out, now) ==
    IF out.alerts # <<>>
    THEN [lastAlert |-> now, lastPrice |-> p.usd, returned |-> FALSE,
          resetSeen |-> FALSE,
          firstSample |-> IF h.firstSample = 0 THEN now + StampLag
                          ELSE h.firstSample]
    ELSE [h EXCEPT
            !.firstSample = IF @ = 0 /\ p.ok THEN now + StampLag ELSE @,
            !.returned = @ \/ (p.ok /\ h.lastPrice # 0
                                /\ 2 * Abs(p.usd - h.lastPrice)
                                      < PRICE_CHANGE_THRESHOLD_LOW),
            !.resetSeen = @ \/ out.reset]

\* One iteration of surveillance_task: fee section, price section, then the
\* sleep, followed by g iterations in which both fetches fail.  The macro
\* section (every 24 hours, counted from the first successful fee sample)
\* is not due within MaxPriceCycles * (1 + 24) * SURVEILLANCE_INTERVAL
\* seconds and is left out.  f is the
\* result of get_fee_data(), p of get_price_data(), a of the analysis call.
SurveillanceIteration(f, p, a, g) ==
    LET now == time
        fee == FeeOutcome(f, now)
        out == PriceOutcome(p, a, now, fee.state)
    IN  /\ surv_now' = now
        /\ time' = time + (1 + g) * SURVEILLANCE_INTERVAL
        /\ survCycles' = survCycles + 1
        /\ IF f.bad
           THEN \* the comparison of fastestFee with the thresholds raises
                /\ survRunning' = FALSE
                /\ sent' = <<>>
                /\ priceObs' = [PriceObs0 EXCEPT !.refBefore = LAST_VOLATILITY_REFERENCE_USD,
                                                 !.prevAlert = priceHist.lastAlert,
                                                 !.prevPrice = priceHist.lastPrice]
                /\ UNCHANGED <<current_fee_state, last_fee_alert_ts,
                               LAST_MACRO_REPORT_TS, lastKeyed, PRICE_HISTORY,
                               LAST_VOLATILITY_REFERENCE_USD,
                               last_price_volatility_alert_ts, priceHist>>
           ELSE /\ current_fee_state' = fee.state
                /\ last_fee_alert_ts' = fee.ts
                /\ LAST_MACRO_REPORT_TS' = fee.macro
                /\ lastKeyed' = IF fee.alerts # <<>>
                                THEN [lastKeyed EXCEPT !["fee"] = now]
                                ELSE lastKeyed
                /\ PRICE_HISTORY' = out.history
                /\ LAST_VOLATILITY_REFERENCE_USD' = out.ref
                /\ last_price_volatility_alert_ts' = out.ts
                /\ sent' = fee.alerts \o out.alerts
                /\ survRunning' = ~out.raised
                /\ priceObs' = [ran |-> TRUE, ok |-> p.ok, usd |-> p.usd,
                                feeState |-> fee.state,
                                evaluated |-> out.evaluated, old |-> out.old,
                                refBefore |-> LAST_VOLATILITY_REFERENCE_USD,
                                reset |-> out.reset, tested |-> out.tested,
                                prevAlert |-> priceHist.lastAlert,
                                prevPrice |-> priceHist.lastPrice,
                                analysis |-> IF out.needed THEN a ELSE None,
                                raised |-> out.raised]
                /\ priceHist' = PriceHistNext(priceHist, p, out, now)

SurveillancePrice ==
    /\ scope = "price"
    /\ survRunning
    /\ survCycles < MaxPriceCycles
    /\ \E f \in PriceScopeFeeSamples, p \in PriceSamples,
          a \in AnalysisResults(GEMINI_API_KEY), g \in OutageCycles :
            SurveillanceIteration(f, p, a, g)
    /\ UNCHANGED <<scope, GEMINI_API_KEY, feeObs, feeHist, hwVars, sysVars, hwHistVars, diskVars,
                   svcVars,
                   lndVars,
                   cmdVars,
                   histVars,
                   macroVars,
                   deliveryVars,
                   taskVars>>

----------------------------------------------------------------------------
(***************************************************************************)
(* monitor_system_task, section 1: CPU, RAM and load debouncers.  The code *)
(* repeats the same block for the three quantities, each on its own        *)
(* counter, flag and timestamp; the block is Debounce.                     *)
(***************************************************************************)

\* results of get_remote_system_status(): {"error": ...} or the data
HwSamples ==
    {[ok |-> FALSE, cpu_pct |-> 0, ram_pct |-> 0, load1 |-> 0]} \cup
    {[ok |-> TRUE, cpu_pct |-> c, ram_pct |-> r, load1 |-> l] :
        c \in CpuValues, r \in RamValues, l \in Load1Values}

\* The first test of each block: the reading against its threshold.
OverThreshold(q, s) ==
    IF q = "cpu" THEN s.cpu_pct >= CPU_THRESHOLD_PCT
    ELSE IF q = "ram" THEN s.ram_pct >= RAM_THRESHOLD_PCT
    ELSE s.load1 \div Cores >= LOAD_PER_CORE_THRESHOLD

RisingNeededNoActiveCheck(count, active, now, last) ==
    count >= PERSISTENCE_COUNT /\ CooldownElapsed(now, last)
RisingNeededNoCooldown(count, active, now, last) ==
    count >= PERSISTENCE_COUNT /\ ~active
RisingNeededOneEarly(count, active, now, last) ==
    count >= PERSISTENCE_COUNT - 1 /\ ~active /\ CooldownElapsed(now, last)
\* The condition of the rising alert.
RisingNeeded(count, active, now, last) ==
    count >= PERSISTENCE_COUNT /\ ~active /\ CooldownElapsed(now, last)

\* The counter after the first test.
CountAfter(count, over) == IF over THEN count + 1 ELSE 0

RecoveryNeededAlways(active, over) == ~over
\* The condition of the recovery alert.
RecoveryNeeded(active, over) == ~over /\ active

\* One block: st is [count, active, last] of the quantity; the result adds
\* whether the recovery and the rising alert are sent.
Debounce(st, over, now) ==
    LET count == CountAfter(st.count, over)
        recovery == RecoveryNeeded(st.active, over)
        active == IF over THEN st.active ELSE FALSE
        rising == RisingNeeded(count, active, now, st.last)
    IN  [count |-> count,
         active |-> active \/ rising,
         last |-> IF rising THEN now ELSE st.last,
         recovery |-> recovery,
         rising |-> rising]

\* Whether a reading is over its threshold, as the properties mean it:
\* at or above the configured value.
SampleOver(q, s) ==
    IF q = "cpu" THEN s.cpu_pct >= CPU_THRESHOLD_PCT
    ELSE IF q = "ram" THEN s.ram_pct >= RAM_THRESHOLD_PCT
    ELSE s.load1 * 100 >= LOAD_PER_CORE_THRESHOLD * Cores * 100

\* History of one quantity over its successful samples.  run is the length
\* of the current run of consecutive over-threshold samples; risingInRun
\* counts the rising alerts sent during it; eligible tells whether, at some
\* sample of the run from the PERSISTENCE_COUNT-th on, more than
\* ALERT_COOLDOWN had passed since the quantity's previous rising alert;
\* lastKind and lastAny are the kind and time of the quantity's latest
\* alert, lastRecovery the time of its latest recovery alert; fresh spells the first samples since start-up while they read
\* over, over, then over or under ("x" in every other case, and from the
\* iteration after that) and freshRisings lists which of them sent a rising
\* alert.
HwHist0 ==
    [run |-> 0, risingInRun |-> 0, eligible |-> FALSE,
     lastKind |-> None, lastAny |-> 0, lastRecovery |-> 0,
     fresh |-> "", freshRisings |-> <<>>]

FreshNext(fresh, over) ==
    IF fresh = "" /\ over THEN "o"
    ELSE IF fresh = "o" /\ over THEN "oo"
    ELSE IF fresh = "oo" THEN (IF over THEN "ooo" ELSE "oou")
    ELSE "x"

HwHistNext(h, over, r, now, prevRising) ==
    LET run == IF over THEN h.run + 1 ELSE 0
        first == h.run = 0
        elapsed == /\ over
                   /\ run >= PERSISTENCE_COUNT
                   /\ (prevRising = 0 \/ now - prevRising > ALERT_COOLDOWN)
        fresh == FreshNext(h.fresh, over)
    IN  [run |-> run,
         risingInRun |-> (IF over /\ ~first THEN h.risingInRun ELSE 0)
                         + (IF r.rising THEN 1 ELSE 0),
         eligible |-> IF over THEN (~first /\ h.eligible) \/ elapsed ELSE FALSE,
         lastKind |-> IF r.rising THEN "rising"
                      ELSE IF r.recovery THEN "recovery" ELSE h.lastKind,
         lastAny |-> IF r.rising \/ r.recovery THEN now ELSE h.lastAny,
         lastRecovery |-> IF r.recovery THEN now ELSE h.lastRecovery,
         fresh |-> fresh,
         freshRisings |-> IF fresh = "x" THEN <<>>
                          ELSE IF r.rising THEN Append(h.freshRisings, Len(fresh))
                          ELSE h.freshRisings]

\* What the latest hardware section saw: the sample and, per quantity, the
\* kind of its latest alert and the time of its latest recovery alert before
\* the section ran, and, when the sample ended a run, that run's length
\* (0 otherwise) with the rising alerts it had produced.
HwObs0 ==
    [s |-> [ok |-> FALSE, cpu_pct |-> 0, ram_pct |-> 0, load1 |-> 0],
     prevKind |-> [q \in Quantities |-> None],
     prevRecovery |-> [q \in Quantities |-> 0],
     ended |-> [q \in Quantities |-> [len |-> 0, rising |-> 0]]]

\* One iteration, hardware section, then the sleep.  s is the result of
\* get_remote_system_status().
HardwareSection(s) ==
    LET now == time
        res == [q \in Quantities |->
                  Debounce([count |-> high_count[q], active |-> is_alert_active[q],
                            last |-> last_remote_alert[q]],
                           OverThreshold(q, s), now)]
        alertsOf(q) ==
            (IF res[q].recovery
             THEN <<Alert("recovery", q, q, now, last_remote_alert[q],
                          hwHist[q].lastAny)>>
             ELSE <<>>)
            \o (IF res[q].rising
                THEN <<Alert("rising", q, q, now, last_remote_alert[q], lastKeyed[q])>>
                ELSE <<>>)
    IN  /\ sys_now' = now
        /\ time' = time + SYS_CHECK_INTERVAL
        /\ sysCycles' = sysCycles + 1
        /\ hwObs' = [s |-> s,
                     prevKind |-> [q \in Quantities |-> hwHist[q].lastKind],
                     prevRecovery |-> [q \in Quantities |-> hwHist[q].lastRecovery],
                     ended |-> [q \in Quantities |->
                                  IF s.ok /\ ~SampleOver(q, s)
                                  THEN [len |-> hwHist[q].run,
                                        rising |-> hwHist[q].risingInRun]
                                  ELSE [len |-> 0, rising |-> 0]]]
        /\ IF ~s.ok
           THEN /\ sent' = <<>>
                /\ hwHist' = [q \in Quantities |->
                                [hwHist[q] EXCEPT
                                   !.fresh = IF @ \in {"ooo", "oou"} THEN "x" ELSE @,
                                   !.freshRisings = IF hwHist[q].fresh \in {"ooo", "oou"}
                                                    THEN <<>> ELSE @]]
                /\ UNCHANGED <<hwVars, lastKeyed>>
           ELSE /\ high_count' = [q \in Quantities |-> res[q].count]
                /\ is_alert_active' = [q \in Quantities |-> res[q].active]
                /\ last_remote_alert' = [q \in Quantities |-> res[q].last]
                /\ sent' = alertsOf("cpu") \o alertsOf("ram") \o alertsOf("load")
                /\ lastKeyed' = [k \in Keys |->
                                   IF k \in Quantities /\ res[k].rising
                                   THEN now ELSE lastKeyed[k]]
                /\ hwHist' = [q \in Quantities |->
                                HwHistNext(hwHist[q], SampleOver(q, s), res[q],
                                           now, lastKeyed[q])]

\* The samples a scope draws from.
HwSamplesOf(sc) ==
    IF sc = "hw" THEN HwSamples
    ELSE {s \in HwSamples : \A q \in Quantities \ {sc} : ~SampleOver(q, s)}

MonitorHardware ==
    /\ scope \in HwScopes
    /\ sysCycles < (IF scope = "hw" THEN MaxSysCycles ELSE MaxSoloCycles)
    /\ \E s \in HwSamplesOf(scope) : HardwareSection(s)
    /\ UNCHANGED <<scope, survVars, diskVars, svcVars, priceVars, probeObs,
                   lndVars,
                   cmdVars,
                   histVars,
                   macroVars,
                   deliveryVars,
                   taskVars>>

\* send_alert(): what the caller sees of one call, given whether
\* bot.send_message succeeded.  The except clause logs the error, so the
\* call returns in both cases.
SendAlertPropagates(accepted) == IF accepted THEN "returned" ELSE "raised"
SendAlert(accepted) == "returned"

\* One block of the hardware section, statement by statement, with the
\* outcome of its send_alert call (a block makes at most one: the recovery
\* alert needs a reading under the threshold, the rising alert a counter of
\* at least PERSISTENCE_COUNT).  aborted tells that the call raised, which
\* leaves the rest of the iteration unexecuted.
DeliverBlock(st, over, now, accepted) ==
    LET count == CountAfter(st.count, over)
        recovery == RecoveryNeeded(st.active, over)
        recRaised == recovery /\ SendAlert(accepted) = "raised"
        active == IF recovery /\ ~recRaised THEN FALSE ELSE st.active
        rising == ~recRaised /\ RisingNeeded(count, active, now, st.last)
        risRaised == rising /\ SendAlert(accepted) = "raised"
    IN  [count |-> count,
         active |-> active \/ (rising /\ ~risRaised),
         last |-> IF rising /\ ~risRaised THEN now ELSE st.last,
         calls |-> IF recovery THEN <<"recovery">>
                   ELSE IF rising THEN <<"rising">> ELSE <<>>,
         aborted |-> recRaised \/ risRaised]

\* A block that is not executed.
SkippedBlock(st) ==
    [count |-> st.count, active |-> st.active, last |-> st.last,
     calls |-> <<>>, aborted |-> TRUE]

\* The order of the three blocks.
BlockOrder == <<"cpu", "ram", "load">>

\* The state of the three debouncers before the first iteration.
Shadow0 == [q \in Quantities |-> [count |-> 0, active |-> FALSE, last |-> 0]]

\* One iteration of the hardware section in which Telegram accepts the call
\* of block q exactly when accepted[q].
DeliverySection(s, accepted) ==
    LET now == time
        st(q) == [count |-> high_count[q], active |-> is_alert_active[q],
                  last |-> last_remote_alert[q]]
        cpu == DeliverBlock(st("cpu"), OverThreshold("cpu", s), now, accepted["cpu"])
        ram == IF cpu.aborted THEN SkippedBlock(st("ram"))
               ELSE DeliverBlock(st("ram"), OverThreshold("ram", s), now,
                                 accepted["ram"])
        load == IF ram.aborted THEN SkippedBlock(st("load"))
                ELSE DeliverBlock(st("load"), OverThreshold("load", s), now,
                                  accepted["load"])
        res == [q \in Quantities |->
                  IF q = "cpu" THEN cpu ELSE IF q = "ram" THEN ram ELSE load]
        callsOf(q) ==
            IF res[q].calls = <<>> THEN <<>>
            ELSE <<Alert(res[q].calls[1], q, q, now, last_remote_alert[q],
                         lastKeyed[q])>>
        acceptedOf(q) == IF res[q].calls = <<>> THEN <<>> ELSE <<accepted[q]>>
        ideal == [q \in Quantities |-> Debounce(shadow[q], OverThreshold(q, s), now)]
        idealOf(q) ==
            (IF ideal[q].recovery THEN <<[kind |-> "recovery", key |-> q]>> ELSE <<>>)
            \o (IF ideal[q].rising THEN <<[kind |-> "rising", key |-> q]>> ELSE <<>>)
    IN  /\ sys_now' = now
        /\ time' = time + SYS_CHECK_INTERVAL
        /\ sysCycles' = sysCycles + 1
        /\ hwObs' = [hwObs EXCEPT !.s = s]
        /\ prevFailed' = {[kind |-> sent[i].kind, key |-> sent[i].key] :
                             i \in {j \in DOMAIN sent : ~delivered[j]}}
        /\ IF ~s.ok
           THEN /\ sent' = <<>>
                /\ delivered' = <<>>
                /\ shadowSent' = <<>>
                /\ UNCHANGED <<hwVars, lastKeyed, shadow>>
           ELSE /\ \A q \in Quantities : res[q].calls = <<>> => accepted[q]
                /\ high_count' = [q \in Quantities |-> res[q].count]
                /\ is_alert_active' = [q \in Quantities |-> res[q].active]
                /\ last_remote_alert' = [q \in Quantities |-> res[q].last]
                /\ sent' = callsOf("cpu") \o callsOf("ram") \o callsOf("load")
                /\ delivered' = acceptedOf("cpu") \o acceptedOf("ram")
                                   \o acceptedOf("load")
                /\ lastKeyed' = [k \in Keys |->
                                   IF k \in Quantities /\ res[k].calls = <<"rising">>
                                   THEN now ELSE lastKeyed[k]]
                /\ shadow' = [q \in Quantities |->
                                [count |-> ideal[q].count, active |-> ideal[q].active,
                                 last |-> ideal[q].last]]
                /\ shadowSent' = idealOf("cpu") \o idealOf("ram") \o idealOf("load")

MonitorDelivery ==
    /\ scope = "delivery"
    /\ sysCycles < MaxDeliveryCycles
    /\ \E s \in HwSamples, accepted \in [Quantities -> BOOLEAN] :
          DeliverySection(s, accepted)
    /\ UNCHANGED <<scope, survVars, diskVars, svcVars, priceVars, hwHist, probeObs,
                   lndVars, cmdVars, histVars, macroVars,
                   taskVars>>

\* get_remote_system_status() command by command.  Results of `top -bn1`
\* through run_remote_command: an error (SSH error or timeout) or an output
\* from which the CPU and RAM percentages are parsed.
TopResults ==
    {[ok |-> FALSE, cpu_pct |-> 0, ram_pct |-> 0]} \cup
    {[ok |-> TRUE, cpu_pct |-> c, ram_pct |-> 70] : c \in CpuValues}
\* Results of `uptime`: an error or an output holding the load average.
UptimeResults ==
    {[ok |-> FALSE, load1 |-> 0]} \cup
    {[ok |-> TRUE, load1 |-> l] : l \in Load1Values}

\* What get_remote_system_status() returns: the error of `top`, or the data
\* dictionary, which starts with load1 = 0.0 and keeps it when `uptime`
\* failed (its error is logged only).
RemoteSystemStatus(top, up) ==
    IF ~top.ok
    THEN [ok |-> FALSE, cpu_pct |-> 0, ram_pct |-> 0, load1 |-> 0]
    ELSE [ok |-> TRUE, cpu_pct |-> top.cpu_pct, ram_pct |-> top.ram_pct,
          load1 |-> IF up.ok THEN up.load1 ELSE 0]

\* Before the first iteration.
ProbeObs0 ==
    [ran |-> FALSE, top |-> FALSE, uptime |-> FALSE,
     count |-> [q \in Quantities |-> 0],
     active |-> [q \in Quantities |-> FALSE],
     last |-> [q \in Quantities |-> 0]]

\* One iteration of the hardware section with the two remote commands
\* drawn separately; probeObs keeps which of them succeeded and the
\* counters, flags and timestamps the iteration started with.
MonitorHardwareProbed ==
    /\ scope = "probe"
    /\ sysCycles < MaxProbeCycles
    /\ \E top \in TopResults, up \in UptimeResults :
          /\ HardwareSection(RemoteSystemStatus(top, up))
          /\ probeObs' = [ran |-> TRUE, top |-> top.ok,
                          uptime |-> top.ok /\ up.ok,
                          count |-> high_count, active |-> is_alert_active,
                          last |-> last_remote_alert]
    /\ UNCHANGED <<scope, survVars, diskVars, svcVars, priceVars,
                   lndVars,
                   cmdVars,
                   histVars,
                   macroVars,
                   deliveryVars,
                   taskVars>>

----------------------------------------------------------------------------
(***************************************************************************)
(* monitor_system_task, section 1, disk monitoring: runs in the iterations *)
(* whose get_remote_system_status() succeeded.                             *)
(***************************************************************************)

\* results of get_remote_disk_status(): an error (no alert data) or the
\* usage of each mount
DiskSamples ==
    {[ok |-> FALSE, pct |-> [m \in MountSet |-> 0]]} \cup
    {[ok |-> TRUE, pct |-> f] : f \in [MountSet -> DiskValues]}

\* get_remote_disk_status: the test that puts a mount in alert_data.
DiskOver(pct) == pct >= DISK_THRESHOLD_PCT

\* remote_alerts: the mounts at or over the threshold, in df's order.
RemoteAlerts(ds) ==
    IF ds.ok THEN SelectSeq(Mounts, LAMBDA m : DiskOver(ds.pct[m])) ELSE <<>>

\* One iteration, disk loop, then the sleep.  hwOk tells whether
\* get_remote_system_status() succeeded, ds is the df result.
DiskSection(hwOk, ds) ==
    LET now == time
        listed == IF hwOk THEN RemoteAlerts(ds) ELSE <<>>
        fires(m) == /\ \E i \in DOMAIN listed : listed[i] = m
                    /\ CooldownElapsed(now, last_remote_disk_alert[DiskKey(m)])
        firing == SelectSeq(Mounts, fires)
    IN  /\ sys_now' = now
        /\ time' = time + SYS_CHECK_INTERVAL
        /\ sysCycles' = sysCycles + 1
        /\ sent' = [i \in DOMAIN firing |->
                      Alert("disk", DiskKey(firing[i]),
                            [mount |-> firing[i], pct |-> ds.pct[firing[i]]], now,
                            last_remote_disk_alert[DiskKey(firing[i])],
                            lastKeyed[DiskKey(firing[i])])]
        /\ last_remote_disk_alert' =
              [k \in DOMAIN last_remote_disk_alert |->
                 IF \E m \in MountSet : DiskKey(m) = k /\ fires(m)
                 THEN now ELSE last_remote_disk_alert[k]]
        /\ lastKeyed' = [k \in Keys |->
                           IF \E m \in MountSet : DiskKey(m) = k /\ fires(m)
                           THEN now ELSE lastKeyed[k]]

MonitorDisk ==
    /\ scope = "disk"
    /\ sysCycles < MaxDiskCycles
    /\ \E hwOk \in BOOLEAN, ds \in DiskSamples : DiskSection(hwOk, ds)
    /\ UNCHANGED <<scope, survVars, hwVars, hwHistVars, svcVars, priceVars,
                   lndVars,
                   cmdVars,
                   histVars,
                   macroVars,
                   deliveryVars,
                   taskVars>>

----------------------------------------------------------------------------
(***************************************************************************)
(* monitor_system_task, section 2: service status monitoring.  The status  *)
(* query is `systemctl is-active lnd bitcoin` over SSH; a non-zero exit     *)
(* status of that command makes run_remote_command return an error.        *)
(***************************************************************************)

\* results of run_remote_command(SERVICE_STATUS_CMD): an error or empty
\* output, or one or two status tokens
SvcSamples ==
    {[ok |-> FALSE, statuses |-> <<>>]} \cup
    {[ok |-> TRUE, statuses |-> <<a>>] : a \in SvcTokens} \cup
    {[ok |-> TRUE, statuses |-> <<a, b>>] : a \in SvcTokens, b \in SvcTokens}

\* statuses[i].upper() if len(statuses) > i else "UNKNOWN"
CurrentStatus(statuses, i) ==
    IF Len(statuses) >= i THEN statuses[i] ELSE "UNKNOWN"

ServiceCheckUpFromUnknown(name, current, last, ts, now, prev) ==
    IF current # last /\ CooldownElapsed(now, ts)
    THEN IF current = "INACTIVE" \/ current = "FAILED"
         THEN [status |-> current, ts |-> now,
               alerts |-> <<Alert("service", "service",
                                  [service |-> name, what |-> "DOWN",
                                   status |-> current], now, ts, prev)>>]
         ELSE IF current = "ACTIVE"
         THEN [status |-> current, ts |-> now,
               alerts |-> <<Alert("service", "service",
                                  [service |-> name, what |-> "UP",
                                   status |-> current], now, ts, prev)>>]
         ELSE [status |-> current, ts |-> ts, alerts |-> <<>>]
    ELSE [status |-> last, ts |-> ts, alerts |-> <<>>]
\* One service check: the stored status, the shared timestamp and the
\* alerts after it.  name is "lnd" or "bitcoin".
ServiceCheck(name, current, last, ts, now, prev) ==
    IF current # last /\ CooldownElapsed(now, ts)
    THEN IF current = "INACTIVE" \/ current = "FAILED"
         THEN [status |-> current, ts |-> now,
               alerts |-> <<Alert("service", "service",
                                  [service |-> name, what |-> "DOWN",
                                   status |-> current], now, ts, prev)>>]
         ELSE IF current = "ACTIVE" /\ last # "UNKNOWN"
         THEN [status |-> current, ts |-> now,
               alerts |-> <<Alert("service", "service",
                                  [service |-> name, what |-> "UP",
                                   status |-> current], now, ts, prev)>>]
         ELSE [status |-> current, ts |-> ts, alerts |-> <<>>]
    ELSE [status |-> last, ts |-> ts, alerts |-> <<>>]

\* The watched services, in the order the section checks them.
Services == {"lnd", "bitcoin"}

\* History of the service section: the sample and the stored statuses it
\* started from, the time of the last service alert before it (prevAlert),
\* and per service the time of the last alert about that service before
\* (prevOf) and after (lastOf) the iteration, and whether that alert said
\* DOWN or UP (prevWhat, lastWhat; None when there is none).
SvcObs0 ==
    [s |-> [ok |-> FALSE, statuses |-> <<>>],
     lndBefore |-> "UNKNOWN", btcBefore |-> "UNKNOWN", prevAlert |-> 0,
     prevOf |-> [v \in Services |-> 0], lastOf |-> [v \in Services |-> 0],
     prevWhat |-> [v \in Services |-> None],
     lastWhat |-> [v \in Services |-> None]]

SvcObsNext(s, lnd, btc, now) ==
    [s |-> s, lndBefore |-> last_lnd_service_status,
     btcBefore |-> last_btc_service_status,
     prevAlert |-> lastKeyed["service"],
     prevOf |-> svcObs.lastOf,
     lastOf |-> [v \in Services |->
                   IF s.ok /\ (IF v = "lnd" THEN lnd.alerts ELSE btc.alerts) # <<>>
                   THEN now ELSE svcObs.lastOf[v]],
     prevWhat |-> svcObs.lastWhat,
     lastWhat |-> [v \in Services |->
                     LET alerts == IF v = "lnd" THEN lnd.alerts ELSE btc.alerts
                     IN  IF s.ok /\ alerts # <<>>
                         THEN alerts[Len(alerts)].info.what
                         ELSE svcObs.lastWhat[v]]]

\* One iteration, service section, then the sleep.
ServiceSection(s) ==
    LET now == time
        lnd == ServiceCheck("lnd", CurrentStatus(s.statuses, 1),
                            last_lnd_service_status, last_service_alert_ts, now,
                            lastKeyed["service"])
        btc == ServiceCheck("bitcoin", CurrentStatus(s.statuses, 2),
                            last_btc_service_status, lnd.ts, now,
                            IF lnd.alerts # <<>> THEN now ELSE lastKeyed["service"])
    IN  /\ sys_now' = now
        /\ time' = time + SYS_CHECK_INTERVAL
        /\ sysCycles' = sysCycles + 1
        /\ svcObs' = SvcObsNext(s, lnd, btc, now)
        /\ IF ~s.ok
           THEN /\ sent' = <<>>
                /\ UNCHANGED <<last_lnd_service_status, last_btc_service_status,
                               last_service_alert_ts, lastKeyed>>
           ELSE /\ last_lnd_service_status' = lnd.status
                /\ last_btc_service_status' = btc.status
                /\ last_service_alert_ts' = btc.ts
                /\ sent' = lnd.alerts \o btc.alerts
                /\ lastKeyed' = IF lnd.alerts \o btc.alerts # <<>>
                                THEN [lastKeyed EXCEPT !["service"] = now]
                                ELSE lastKeyed

MonitorServices ==
    /\ scope = "svc"
    /\ sysCycles < MaxSvcCycles
    /\ \E s \in SvcSamples : ServiceSection(s)
    /\ UNCHANGED <<scope, survVars, hwVars, hwHistVars, diskVars, priceVars,
                   lndVars,
                   cmdVars,
                   histVars,
                   macroVars,
                   deliveryVars,
                   taskVars>>

\* The service section iterated without end.  Every test of the section
\* compares now with a stored timestamp, so the clock is kept relative to
\* the current iteration: the sleep moves every stored timestamp
\* SYS_CHECK_INTERVAL into the past instead of moving now forward, and a
\* timestamp whose cooldown will have elapsed at the next iteration becomes
\* 0, the value the code starts from.
Rebase(t) ==
    IF t = 0 \/ time - (t - SYS_CHECK_INTERVAL) > ALERT_COOLDOWN
    THEN 0 ELSE t - SYS_CHECK_INTERVAL

ServiceSectionRebased(s) ==
    LET now == time
        lnd == ServiceCheck("lnd", CurrentStatus(s.statuses, 1),
                            last_lnd_service_status, last_service_alert_ts, now,
                            lastKeyed["service"])
        btc == ServiceCheck("bitcoin", CurrentStatus(s.statuses, 2),
                            last_btc_service_status, lnd.ts, now,
                            IF lnd.alerts # <<>> THEN now ELSE lastKeyed["service"])
        obs == SvcObsNext(s, lnd, btc, now)
        alerts == IF s.ok THEN lnd.alerts \o btc.alerts ELSE <<>>
    IN  /\ sys_now' = now
        /\ UNCHANGED <<time, sysCycles>>
        /\ svcObs' = [obs EXCEPT !.lastOf = [v \in Services |-> Rebase(obs.lastOf[v])]]
        /\ sent' = alerts
        /\ last_lnd_service_status' = IF s.ok THEN lnd.status ELSE last_lnd_service_status
        /\ last_btc_service_status' = IF s.ok THEN btc.status ELSE last_btc_service_status
        /\ last_service_alert_ts' =
               Rebase(IF s.ok THEN btc.ts ELSE last_service_alert_ts)
        /\ lastKeyed' = [lastKeyed EXCEPT
                           !["service"] = Rebase(IF alerts # <<>> THEN now ELSE @)]

MonitorServicesForever ==
    /\ scope = "svcloop"
    /\ \E s \in SvcSamples : ServiceSectionRebased(s)
    /\ UNCHANGED <<scope, survVars, hwVars, hwHistVars, diskVars, priceVars,
                   lndVars,
                   cmdVars,
                   histVars,
                   macroVars,
                   deliveryVars,
                   taskVars>>

----------------------------------------------------------------------------
(***************************************************************************)
(* monitor_lnd_task: peers, channels and settled invoices, each compared   *)
(* with the snapshot of the previous successful listing.  The task reads   *)
(* no clock and keeps no cooldown timestamp.                               *)
(***************************************************************************)

\* pub_key of the peers, channel_point of the channels, and (r_hash_str,
\* value) of the invoices the node can report
PeerIds == {"p1", "p2"}
ChannelPoints == {"c1", "c2"}
InvoiceHashes == {"h1", "h2"}
InvoiceValues == {10, 20}

\* results of a list RPC: an exception, or the set built from the list
ListResults(ids) ==
    {[ok |-> FALSE, ids |-> {}]} \cup {[ok |-> TRUE, ids |-> S] : S \in SUBSET ids}
\* the settled invoices of list_invoices(), as (hash, value) pairs
SettledPairs == {<<h, v>> : h \in InvoiceHashes, v \in InvoiceValues}

\* The results a scope draws for a family: every result for its own
\* family, a successful empty listing for the other two.
LndResultsOf(sc, family, ids) ==
    IF sc = family THEN ListResults(ids) ELSE {[ok |-> TRUE, ids |-> {}]}

SetDiffAddedOnly(cur, prev) == [added |-> cur \ prev, removed |-> {}]
SetDiffSilentBaseline(cur, prev) ==
    [added |-> IF prev = {} THEN {} ELSE cur \ prev, removed |-> prev \ cur]
\* new = cur - prev, removed = prev - cur
SetDiff(cur, prev) == [added |-> cur \ prev, removed |-> prev \ cur]

NextSnapshotMerged(prev, cur) == prev \cup cur
\* prev_peers = cur_peers, prev_channels = cur_ch, prev_settled_invoices = cur_settled
NextSnapshot(prev, cur) == cur

\* the hashes of a set of (hash, value) pairs
HashesOf(pairs) == {x[1] : x \in pairs}

NewSettledByPair(cur, prev) == cur \ prev
\* new_settled: the pairs of cur_settled whose hash is not a hash of the
\* previous snapshot
NewSettled(cur, prev) == {x \in cur : x[1] \notin HashesOf(prev)}

\* The orders in which a loop over a Python set may visit its elements.
Orders(S) ==
    {f \in [1..Cardinality(S) -> S] : \A x \in S : \E i \in DOMAIN f : f[i] = x}

\* One send_alert call of monitor_lnd_task about the entity or the error
\* source `what`; prev is the time of the previous alert of the same kind
\* about the same thing.
LndAlert(kind, family, what, prev) ==
    Alert(kind, family, what, time, -1, prev)

\* The alerts of a loop `for x in ids: send_alert(...)`, visited in order o.
LndAlerts(kind, family, o) ==
    [i \in DOMAIN o |-> LndAlert(kind, family, o[i], 0)]

\* The error alert of an except branch.
LndErrorAlert(source) ==
    <<LndAlert("lnd_error", source, source, lndHist.lastError[source])>>

\* The ids the alerts of one kind announce.
Announced(alerts, kind) ==
    {alerts[i].info : i \in {j \in DOMAIN alerts : alerts[j].kind = kind}}

LndSources == {"client", "peers", "channels", "invoices"}
LndFamilies == {"peers", "channels", "invoices"}

\* What the latest iteration sampled: whether the client was created, the
\* three list results, and the values before the iteration of
\* lndHist.listed and lndHist.diff.
LndObs0 ==
    [ran |-> FALSE, client |-> FALSE,
     sample |-> [f \in LndFamilies |-> [ok |-> FALSE, ids |-> {}]],
     before |-> [f \in LndFamilies |-> {}],
     prevDiff |-> [f \in LndFamilies |-> [from |-> {}, added |-> {}, removed |-> {}]],
     seenBefore |-> [f \in LndFamilies |-> FALSE]]

\* lndObs.seenBefore and lndHist.seen tell, per family, whether an iteration
\* before (up to) the latest one listed it successfully.
\* Per family, the set of the latest successful listing (listed) and, of
\* the latest iteration that listed it successfully, the set listed before
\* it with what that iteration announced as added and removed (diff); per
\* error source, the time of its latest error alert (lastError) and the
\* number of error alerts in the current run of consecutive failures (run).
LndHist0 ==
    [listed |-> [f \in LndFamilies |-> {}],
     diff |-> [f \in LndFamilies |-> [from |-> {}, added |-> {}, removed |-> {}]],
     lastError |-> [s \in LndSources |-> 0],
     run |-> [s \in LndSources |-> 0],
     seen |-> [f \in LndFamilies |-> FALSE]]

\* The alert kinds of a family: added, removed.
AddedKind(f) ==
    IF f = "peers" THEN "peer_connected"
    ELSE IF f = "channels" THEN "channel_opened" ELSE "invoice_settled"
RemovedKind(f) ==
    IF f = "peers" THEN "peer_disconnected"
    ELSE IF f = "channels" THEN "channel_closed" ELSE "invoice_removed"

\* One iteration of monitor_lnd_task, then the sleep.  c tells whether
\* get_lnd_client() returned, pe, ch and inv are the results of the three
\* list RPCs.
LndIteration(c, pe, ch, inv) ==
    LET sample == [f \in LndFamilies |->
                     IF f = "peers" THEN pe ELSE IF f = "channels" THEN ch ELSE inv]
        pd == SetDiff(pe.ids, prev_peers)
        cd == SetDiff(ch.ids, prev_channels)
        ns == NewSettled(inv.ids, prev_settled_invoices)
        failed(s) == IF s = "client" THEN ~c ELSE c /\ ~sample[s].ok
        histAfter(alerts) ==
            [listed |-> [f \in LndFamilies |->
                           IF c /\ sample[f].ok THEN sample[f].ids
                           ELSE lndHist.listed[f]],
             diff |-> [f \in LndFamilies |->
                         IF c /\ sample[f].ok
                         THEN [from |-> lndHist.listed[f],
                               added |-> Announced(alerts, AddedKind(f)),
                               removed |-> Announced(alerts, RemovedKind(f))]
                         ELSE lndHist.diff[f]],
             lastError |-> [s \in LndSources |->
                              IF failed(s) THEN time ELSE lndHist.lastError[s]],
             run |-> [s \in LndSources |->
                        IF failed(s) THEN lndHist.run[s] + 1
                        ELSE IF s = "client" \/ c THEN 0 ELSE lndHist.run[s]],
             seen |-> [f \in LndFamilies |->
                         lndHist.seen[f] \/ (c /\ sample[f].ok)]]
    IN  /\ time' = time + LND_CHECK_INTERVAL
        /\ lndCycles' = lndCycles + 1
        /\ lndObs' = [ran |-> TRUE, client |-> c, sample |-> sample,
                      before |-> lndHist.listed, prevDiff |-> lndHist.diff,
                      seenBefore |-> lndHist.seen]
        /\ IF ~c
           THEN /\ sent' = LndErrorAlert("client")
                /\ lndHist' = histAfter(<<>>)
                /\ UNCHANGED <<prev_peers, prev_channels, prev_settled_invoices>>
           ELSE /\ \E pa \in Orders(pd.added), pr \in Orders(pd.removed),
                      ca \in Orders(cd.added), cr \in Orders(cd.removed),
                      ia \in Orders(ns) :
                      LET alerts ==
                            (IF pe.ok
                             THEN LndAlerts("peer_connected", "peers", pa)
                                  \o LndAlerts("peer_disconnected", "peers", pr)
                             ELSE LndErrorAlert("peers"))
                            \o (IF ch.ok
                                THEN LndAlerts("channel_opened", "channels", ca)
                                     \o LndAlerts("channel_closed", "channels", cr)
                                ELSE LndErrorAlert("channels"))
                            \o (IF inv.ok
                                THEN LndAlerts("invoice_settled", "invoices", ia)
                                ELSE LndErrorAlert("invoices"))
                      IN  /\ sent' = alerts
                          /\ lndHist' = histAfter(alerts)
                /\ prev_peers' = IF pe.ok THEN NextSnapshot(prev_peers, pe.ids)
                                 ELSE prev_peers
                /\ prev_channels' = IF ch.ok THEN NextSnapshot(prev_channels, ch.ids)
                                    ELSE prev_channels
                /\ prev_settled_invoices' =
                      IF inv.ok THEN NextSnapshot(prev_settled_invoices, inv.ids)
                      ELSE prev_settled_invoices

MonitorLnd ==
    /\ scope \in LndScopes
    /\ lndCycles < MaxLndCycles
    /\ \E c \in BOOLEAN,
          pe \in LndResultsOf(scope, "peers", PeerIds),
          ch \in LndResultsOf(scope, "channels", ChannelPoints),
          inv \in LndResultsOf(scope, "invoices", SettledPairs) :
            LndIteration(c, pe, ch, inv)
    /\ UNCHANGED <<scope, lastKeyed, survVars, hwVars, sysVars, hwHistVars,
                   diskVars, svcVars, priceVars,
                   cmdVars,
                   histVars,
                   macroVars,
                   deliveryVars,
                   taskVars>>

----------------------------------------------------------------------------
(***************************************************************************)
(* surveillance_task, section 3: the periodic macro report, in iterations  *)
(* whose price fetch fails (the price section then does nothing).          *)
(***************************************************************************)

\* the context perform_contextual_analysis() returns for the macro query:
\* an analysis, the analysis header with the default text when the answer
\* holds none, the analysis saying there is nothing new, or one of the
\* failure texts; with the key not set the call raises
MacroTexts(keySet) ==
    IF keySet THEN {"report", "unavailable", "nothing_new", "failed"}
    ELSE {"raised"}

\* "Contextual Analysis Failed" in context, or
\* "NESSUN AGGIORNAMENTO MACRO SIGNIFICATIVO" in context
HasSentinel(text) == text \in {"failed", "nothing_new"}

MacroDueNoCooldown(feeState, now, last) == feeState # "INIT"
\* the condition of the macro section
MacroDue(feeState, now, last) ==
    feeState # "INIT" /\ now - last > MACRO_REPORT_COOLDOWN

\* iterations skipped after a modelled one: their fetches fail and their
\* macro section is not due
MacroOutageCycles == {0, 287}

\* The latest macro section: whether the analysis was called, the timer it
\* compared with, the text it got, and the time of the previous call.
\* macroHist keeps the time of the latest call, their number, and the time
\* of the iteration in which the fee level left INIT (0 before it).
MacroObs0 ==
    [ran |-> FALSE, called |-> FALSE, timer |-> 0, text |-> None, prevCall |-> 0]

MacroHist0 == [lastCall |-> 0, calls |-> 0, init |-> 0]

\* One iteration: fee section with the result f of get_fee_data(), macro
\* section with the context m, the sleep, then g skipped iterations.
MacroIteration(f, m, g) ==
    LET now == time
        fee == FeeOutcome(f, now)
        due == MacroDue(fee.state, now, fee.macro)
        raised == due /\ m = "raised"
        report == IF due /\ ~raised /\ ~HasSentinel(m)
                  THEN <<Alert("macro", "macro", m, now, fee.macro,
                               macroHist.lastCall)>>
                  ELSE <<>>
    IN  /\ g > 0 => (fee.state = "INIT"
                        \/ now + g * SURVEILLANCE_INTERVAL
                              - (IF due /\ ~raised THEN now ELSE fee.macro)
                                 <= MACRO_REPORT_COOLDOWN)
        /\ surv_now' = now
        /\ time' = time + (1 + g) * SURVEILLANCE_INTERVAL
        /\ survCycles' = survCycles + 1
        /\ current_fee_state' = fee.state
        /\ last_fee_alert_ts' = fee.ts
        /\ lastKeyed' = IF fee.alerts # <<>>
                        THEN [lastKeyed EXCEPT !["fee"] = now]
                        ELSE lastKeyed
        /\ sent' = fee.alerts \o report
        /\ LAST_MACRO_REPORT_TS' = IF due /\ ~raised THEN now ELSE fee.macro
        /\ survRunning' = ~raised
        /\ macroObs' = [ran |-> TRUE, called |-> due, timer |-> fee.macro,
                        text |-> IF due THEN m ELSE None,
                        prevCall |-> macroHist.lastCall]
        /\ macroHist' =
              [lastCall |-> IF due THEN now ELSE macroHist.lastCall,
               calls |-> macroHist.calls + (IF due THEN 1 ELSE 0),
               init |-> IF f.ok /\ current_fee_state = "INIT" THEN now
                        ELSE macroHist.init]

SurveillanceMacro ==
    /\ scope = "macro"
    /\ survRunning
    /\ survCycles < MaxMacroCycles
    /\ \E f \in {[ok |-> FALSE, fee |-> 0], [ok |-> TRUE, fee |-> 3]},
          m \in MacroTexts(GEMINI_API_KEY), g \in MacroOutageCycles :
            MacroIteration(f, m, g)
    /\ UNCHANGED <<scope, feeObs, feeHist, hwVars, sysVars, hwHistVars, diskVars,
                   svcVars, lndVars, cmdVars, histVars, GEMINI_API_KEY,
                   PRICE_HISTORY, LAST_VOLATILITY_REFERENCE_USD,
                   last_price_volatility_alert_ts, priceObs, priceHist,
                   deliveryVars,
                   taskVars>>

----------------------------------------------------------------------------
(***************************************************************************)
(* update_fee_history and update_price_history as functions of the history,*)
(* the sample and the clock, called at any non-decreasing times.           *)
(***************************************************************************)

\* seconds between one call and the next
CallGaps == {0, 300, 3600, 14400}

\* The latest call of each function: its count, the time.time() it read and
\* the value it was given.
HistObs0 ==
    [fee |-> [calls |-> 0, at |-> 0, value |-> 0],
     price |-> [calls |-> 0, at |-> 0, value |-> 0]]

update_fee_history ==
    /\ scope = "hist"
    /\ histCalls < MaxHistCalls
    /\ \E fee \in {3, 12}, gap \in CallGaps :
          /\ FEE_HISTORY' = UpdateFeeHistory(FEE_HISTORY, fee, time)
          /\ histObs' = [histObs EXCEPT !.fee = [calls |-> @.calls + 1, at |-> time,
                                                 value |-> fee]]
          /\ time' = time + gap
    /\ histCalls' = histCalls + 1
    /\ UNCHANGED <<scope, sent, lastKeyed, survVars, hwVars, sysVars, hwHistVars,
                   diskVars, svcVars, priceVars, lndVars, cmdVars,
                   macroVars,
                   deliveryVars,
                   taskVars>>

update_price_history ==
    /\ scope = "hist"
    /\ histCalls < MaxHistCalls
    /\ \E usd \in {60000}, gap \in CallGaps :
          /\ PRICE_HISTORY' = UpdatePriceHistory(PRICE_HISTORY, usd, time)
          /\ histObs' = [histObs EXCEPT !.price = [calls |-> @.calls + 1, at |-> time,
                                                   value |-> usd]]
          /\ time' = time + gap
    /\ histCalls' = histCalls + 1
    /\ UNCHANGED <<scope, sent, lastKeyed, survVars, hwVars, sysVars, hwHistVars,
                   diskVars, svcVars, lndVars, cmdVars, FEE_HISTORY,
                   GEMINI_API_KEY, LAST_VOLATILITY_REFERENCE_USD,
                   last_price_volatility_alert_ts, survRunning, priceObs, priceHist,
                   macroVars,
                   deliveryVars,
                   taskVars>>

----------------------------------------------------------------------------
(***************************************************************************)
(* The privileged command handlers, restartbtc_cmd and restartlnd_cmd.     *)
(***************************************************************************)

\* update.effective_chat.id of the incoming command
ChatIds == {CHAT_ID, 4242}
\* results of run_remote_command(RESTART_CMD, timeout=30)
RestartResults == {"ok", "error"}

\* RESTART_CMD of the two handlers
RestartCommand(service) ==
    IF service = "bitcoin" THEN "sudo systemctl restart bitcoin"
    ELSE "sudo systemctl restart lnd"

AuthorizedAnyone(chat) == TRUE
\* the negation of the test `update.effective_chat.id != CHAT_ID`
Authorized(chat) == chat = CHAT_ID

CmdObs0 ==
    [ran |-> FALSE, service |-> None, chat |-> 0, result |-> None, logBefore |-> 0]

\* One restart handler: the denial and return, or the announcement, the
\* remote command and the final message.
RestartCmd(service, chat, result) ==
    /\ cmdCount' = cmdCount + 1
    /\ cmdObs' = [ran |-> TRUE, service |-> service, chat |-> chat,
                  result |-> result, logBefore |-> Len(remote_log)]
    /\ IF ~Authorized(chat)
       THEN /\ replies' = <<"access_denied">>
            /\ UNCHANGED remote_log
       ELSE /\ replies' = <<"restarting",
                            IF result = "error" THEN "restart_failed" ELSE "restarted">>
            /\ remote_log' = Append(remote_log,
                                    [command |-> RestartCommand(service), chat |-> chat])

restartbtc_cmd ==
    /\ scope = "cmd"
    /\ cmdCount < MaxCommands
    /\ \E chat \in ChatIds, result \in RestartResults :
          RestartCmd("bitcoin", chat, result)
    /\ UNCHANGED <<scope, time, sent, lastKeyed, survVars, hwVars, sysVars,
                   hwHistVars, diskVars, svcVars, priceVars, lndVars,
                   histVars,
                   macroVars,
                   deliveryVars,
                   taskVars>>

restartlnd_cmd ==
    /\ scope = "cmd"
    /\ cmdCount < MaxCommands
    /\ \E chat \in ChatIds, result \in RestartResults :
          RestartCmd("lnd", chat, result)
    /\ UNCHANGED <<scope, time, sent, lastKeyed, survVars, hwVars, sysVars,
                   hwHistVars, diskVars, svcVars, priceVars, lndVars,
                   histVars,
                   macroVars,
                   deliveryVars,
                   taskVars>>

----------------------------------------------------------------------------
Init ==
    /\ scope \in Scopes
    /\ time = Epoch
    /\ surv_now = 0
    /\ current_fee_state = "INIT"
    /\ last_fee_alert_ts = 0
    /\ LAST_MACRO_REPORT_TS = 0
    /\ sent = <<>>
    /\ lastKeyed = [k \in Keys |-> 0]
    /\ survCycles = 0
    /\ sys_now = 0
    /\ sysCycles = 0
    /\ high_count = [q \in Quantities |-> 0]
    /\ is_alert_active = [q \in Quantities |-> FALSE]
    /\ last_remote_alert = [q \in Quantities |-> 0]
    /\ hwObs = HwObs0
    /\ probeObs = ProbeObs0
    /\ last_remote_disk_alert = [k \in {DiskKey(m) : m \in MountSet} |-> 0]
    /\ last_lnd_service_status = "UNKNOWN"
    /\ last_btc_service_status = "UNKNOWN"
    /\ last_service_alert_ts = 0
    /\ svcObs = SvcObs0
    /\ hwHist = [q \in Quantities |-> HwHist0]
    /\ feeObs = FeeObs0
    /\ feeHist = FeeHist0
    /\ PRICE_HISTORY = <<>>
    /\ LAST_VOLATILITY_REFERENCE_USD = 0
    /\ last_price_volatility_alert_ts = 0
    /\ survRunning = TRUE
    /\ GEMINI_API_KEY \in (IF scope \in {"price", "macro"} THEN BOOLEAN ELSE {TRUE})
    /\ priceObs = PriceObs0
    /\ priceHist = PriceHist0
    /\ prev_peers = {}
    /\ prev_channels = {}
    /\ prev_settled_invoices = {}
    /\ lndCycles = 0
    /\ lndObs = LndObs0
    /\ lndHist = LndHist0
    /\ replies = <<>>
    /\ remote_log = <<>>
    /\ cmdCount = 0
    /\ cmdObs = CmdObs0
    /\ FEE_HISTORY = <<>>
    /\ histCalls = 0
    /\ histObs = HistObs0
    /\ macroObs = MacroObs0
    /\ macroHist = MacroHist0
    /\ delivered = <<>>
    /\ shadow = Shadow0
    /\ shadowSent = <<>>
    /\ prevFailed = {}
    /\ actor = None

NextFee == SurveillanceFee

\* surveillance_task on its own
InitFee == Init /\ scope = "fee"

SpecFee == InitFee /\ [][NextFee]_vars

NextHw == MonitorHardware

\* the hardware blocks of monitor_system_task on their own
InitHw == Init /\ scope \in HwScopes

SpecHw == InitHw /\ [][NextHw]_vars

\* Every alert path that has a cooldown key.
NextKeyed == SurveillanceFee \/ MonitorHardware \/ MonitorDisk \/ MonitorServices

InitKeyed == Init /\ scope \in KeyedScopes

SpecKeyed == InitKeyed /\ [][NextKeyed]_vars

NextPrice == SurveillancePrice

InitPrice == Init /\ scope = "price"

SpecPrice == InitPrice /\ [][NextPrice]_vars

NextProbe == MonitorHardwareProbed

InitProbe == Init /\ scope = "probe"

SpecProbe == InitProbe /\ [][NextProbe]_vars

NextLnd == MonitorLnd

\* monitor_lnd_task on its own
InitLnd == Init /\ scope \in LndScopes

SpecLnd == InitLnd /\ [][NextLnd]_vars

NextCmd == restartbtc_cmd \/ restartlnd_cmd

\* the command handlers on their own
InitCmd == Init /\ scope = "cmd"

SpecCmd == InitCmd /\ [][NextCmd]_vars

NextHist == update_fee_history \/ update_price_history

\* the two history functions on their own
InitHist == Init /\ scope = "hist"

SpecHist == InitHist /\ [][NextHist]_vars

(***************************************************************************)
(* main(): the three tasks created on the event loop and the command       *)
(* handlers of the polling application, interleaved.  The tasks give up    *)
(* control only at an await, and no iteration reads shared state across    *)
(* one, so a step is one whole iteration of a task or one whole handler.   *)
(* time is the clock read by the step; it advances by the sleep of the     *)
(* task that ran, so the iterations of a task can be closer to each other  *)
(* than its interval.                                                      *)
(***************************************************************************)

\* the steps taken so far
TaskSteps == survCycles + sysCycles + lndCycles + cmdCount

\* What mempool_cmd and price_cmd do to a rolling history with the value
\* they fetched: they reply with it and call neither update_fee_history nor
\* update_price_history.
HistoryAfterCommandRecorded(hist, value, stamp) ==
    UpdatePriceHistory(hist, value, stamp)
HistoryAfterCommand(hist, value, stamp) == hist

\* One iteration of surveillance_task, with update_fee_history applied to a
\* successful fee sample.
RunSurveillance ==
    /\ scope = "tasks"
    /\ survRunning
    /\ TaskSteps < MaxTaskSteps
    /\ \E f \in {s \in PriceScopeFeeSamples : ~s.bad},
          p \in {s \in PriceSamples : s.usd = 60000},
          a \in AnalysisResults(GEMINI_API_KEY) :
            /\ SurveillanceIteration(f, p, a, 0)
            /\ FEE_HISTORY' = IF f.ok THEN UpdateFeeHistory(FEE_HISTORY, f.fee, time)
                              ELSE FEE_HISTORY
    /\ actor' = "surveillance_task"
    /\ UNCHANGED <<scope, GEMINI_API_KEY, feeObs, feeHist, hwVars, sysVars,
                   hwHistVars, diskVars, svcVars, lndVars, cmdVars, histCalls,
                   histObs, macroVars, deliveryVars>>

\* One iteration of monitor_system_task (hardware section).
RunSystem ==
    /\ scope = "tasks"
    /\ TaskSteps < MaxTaskSteps
    /\ \E s \in {x \in HwSamplesOf("cpu") : x.ok} : HardwareSection(s)
    /\ actor' = "monitor_system_task"
    /\ UNCHANGED <<scope, survVars, diskVars, svcVars, priceVars, probeObs,
                   lndVars, cmdVars, histVars, macroVars, deliveryVars>>

\* One iteration of monitor_lnd_task.
RunLnd ==
    /\ scope = "tasks"
    /\ TaskSteps < MaxTaskSteps
    /\ \E c \in {TRUE},
          pe \in ListResults({"p1"}),
          ch \in {r \in ListResults({}) : r.ok},
          inv \in {r \in ListResults({}) : r.ok} :
            LndIteration(c, pe, ch, inv)
    /\ actor' = "monitor_lnd_task"
    /\ UNCHANGED <<scope, lastKeyed, survVars, hwVars, sysVars, hwHistVars,
                   diskVars, svcVars, priceVars, cmdVars, histVars, macroVars,
                   deliveryVars>>

\* /mempool: get_fee_data(), then one reply (the error or the report).
mempool_cmd ==
    /\ scope = "tasks"
    /\ TaskSteps < MaxTaskSteps
    /\ \E f \in {s \in PriceScopeFeeSamples : ~s.bad} :
          /\ replies' = <<IF f.ok THEN "fee_report" ELSE "fee_error">>
          /\ FEE_HISTORY' = HistoryAfterCommand(FEE_HISTORY, f.fee, time)
    /\ cmdCount' = cmdCount + 1
    /\ actor' = "mempool_cmd"
    /\ UNCHANGED <<scope, time, sent, lastKeyed, survVars, hwVars, sysVars,
                   hwHistVars, diskVars, svcVars, priceVars, lndVars,
                   remote_log, cmdObs, histCalls, histObs, macroVars,
                   deliveryVars>>

\* /price: get_price_data(), then one reply (the error or the report).
price_cmd ==
    /\ scope = "tasks"
    /\ TaskSteps < MaxTaskSteps
    /\ \E p \in {s \in PriceSamples : s.usd <= 60000} :
          /\ replies' = <<IF p.ok THEN "price_report" ELSE "price_error">>
          /\ PRICE_HISTORY' = HistoryAfterCommand(PRICE_HISTORY, p.usd, time)
    /\ cmdCount' = cmdCount + 1
    /\ actor' = "price_cmd"
    /\ UNCHANGED <<scope, time, sent, lastKeyed, survVars, hwVars, sysVars,
                   hwHistVars, diskVars, svcVars, GEMINI_API_KEY,
                   LAST_VOLATILITY_REFERENCE_USD, last_price_volatility_alert_ts,
                   survRunning, priceObs, priceHist, lndVars, remote_log, cmdObs,
                   histVars, macroVars, deliveryVars>>

NextTasks == RunSurveillance \/ RunSystem \/ RunLnd \/ mempool_cmd \/ price_cmd

InitTasks == Init /\ scope = "tasks"

SpecTasks == InitTasks /\ [][NextTasks]_vars

NextDelivery == MonitorDelivery

InitDelivery == Init /\ scope = "delivery"

SpecDelivery == InitDelivery /\ [][NextDelivery]_vars

\* Whole iterations of surveillance_task: those with price samples and those
\* around the macro report.
NextSurveillance == SurveillancePrice \/ SurveillanceMacro

InitSurveillance == Init /\ scope \in {"price", "macro"}

SpecSurveillance == InitSurveillance /\ [][NextSurveillance]_vars

NextMacro == SurveillanceMacro

InitMacro == Init /\ scope = "macro"

SpecMacro == InitMacro /\ [][NextMacro]_vars

NextSvcLoop == MonitorServicesForever

InitSvcLoop == Init /\ scope = "svcloop"

\* monitor_system_task never leaves its loop: the body of an iteration is
\* inside try/except Exception and the sleep follows it, so the next
\* iteration always comes.
SpecSvcLoop == InitSvcLoop /\ [][NextSvcLoop]_vars /\ WF_vars(MonitorServicesForever)


----------------------------------------------------------------------------
(***************************************************************************)
(* Properties of the fee level (surveillance_task, section 1).             *)
(***************************************************************************)

\* The levels named by the fee alerts of the latest iteration, in order.
FeeLevelsSent ==
    LET fa == SelectSeq(sent, LAMBDA a : a.kind = "fee")
    IN  [i \in 1..Len(fa) |-> fa[i].info.level]

\* Whether more than ALERT_COOLDOWN separates the latest iteration from the
\* previous fee alert (trivially so when there was none).
FeeWindowElapsed ==
    feeObs.prevAlert = 0 \/ surv_now - feeObs.prevAlert > ALERT_COOLDOWN

\* C1: the iteration in which the fee level leaves INIT sends no fee alert,
\* whatever the sampled value, and stores the computed level.
C1_FirstSampleSilent ==
    (feeObs.ok /\ feeObs.before = "INIT")
        => (FeeLevelsSent = <<>> /\ current_fee_state = feeObs.level)

C1_Witness ==
    /\ feeObs.ok /\ feeObs.before = "INIT"
    /\ feeObs.level = "HIGH" /\ current_fee_state = "HIGH"

\* The alerts the reference run 3,3,8,12,12,3 must have produced after its
\* first k samples.
RefAlertsAfter(k) ==
    IF k <= 2 THEN <<>>
    ELSE IF k = 3 THEN <<"MEDIUM">>
    ELSE IF k <= 5 THEN <<"MEDIUM", "HIGH">>
    ELSE <<"MEDIUM", "HIGH", "LOW">>

\* C2: while successive successful samples are more than ALERT_COOLDOWN
\* apart, after initialization a fee alert is sent exactly in the iterations
\* whose level differs from the level of the previous sample, and it names
\* the new level; the samples 3,3,8,12,12,3 give MEDIUM, HIGH, LOW.
C2_FeeDebounce ==
    /\ (feeObs.ok /\ feeObs.before # "INIT" /\ feeHist.spaced)
          => FeeLevelsSent = IF feeObs.level # feeObs.prevLevel
                             THEN <<feeObs.level>> ELSE <<>>
    /\ feeHist.refPos >= 0 => feeHist.refAlerts = RefAlertsAfter(feeHist.refPos)

C2_Witness ==
    /\ feeHist.refPos = Len(RefFees)
    /\ feeHist.refAlerts = <<"MEDIUM", "HIGH", "LOW">>

\* C3 as stated: a sample whose level differs from the stored level (not
\* INIT) leaves the stored level equal to the computed one.
C3_PersistOnEveryChange ==
    (feeObs.ok /\ feeObs.before # "INIT" /\ feeObs.level # feeObs.before)
        => current_fee_state = feeObs.level

\* C3, amended: the computed level is stored when, in addition, more than
\* ALERT_COOLDOWN has passed since the previous fee alert; otherwise the
\* stored level is left as it was.
C3_PersistWhenWindowElapsed ==
    (feeObs.ok /\ feeObs.before # "INIT" /\ feeObs.level # feeObs.before)
        => current_fee_state = IF FeeWindowElapsed THEN feeObs.level
                               ELSE feeObs.before

C3_Witness ==
    /\ feeObs.ok /\ feeObs.before = "MEDIUM" /\ feeObs.level = "HIGH"
    /\ feeObs.prevAlert > 0 /\ FeeWindowElapsed
    /\ current_fee_state = "HIGH"

----------------------------------------------------------------------------
(***************************************************************************)
(* Properties of the CPU, RAM and load debouncers (monitor_system_task).   *)
(***************************************************************************)

\* The alerts of one kind about one quantity in the latest iteration.
SentOf(kind, q) == SelectSeq(sent, LAMBDA a : a.kind = kind /\ a.key = q)
RisingSent(q) == SentOf("rising", q) # <<>>
RecoverySent(q) == SentOf("recovery", q) # <<>>

\* C7 as stated: every run of at least PERSISTENCE_COUNT over-threshold
\* samples produces exactly one rising alert: never two while it lasts, and
\* one by the time it ends.
C7_ExactlyOneRisingPerRun ==
    \A q \in Quantities :
        /\ hwHist[q].risingInRun <= 1
        /\ hwObs.ended[q].len >= PERSISTENCE_COUNT => hwObs.ended[q].rising = 1

\* C7, amended: a run produces at most one rising alert, and a run of at
\* least PERSISTENCE_COUNT samples has produced it exactly when, at one of
\* its samples from the PERSISTENCE_COUNT-th on, more than ALERT_COOLDOWN
\* had passed since the quantity's previous rising alert.
C7_OneRisingPerRun ==
    \A q \in Quantities :
        /\ hwHist[q].risingInRun <= 1
        /\ hwHist[q].run >= PERSISTENCE_COUNT
              => (hwHist[q].risingInRun = 1 <=> hwHist[q].eligible)

\* A run whose rising alert was held back by the cooldown and sent later in
\* the same run.
C7_Witness ==
    \E q \in Quantities :
        /\ hwHist[q].run > PERSISTENCE_COUNT
        /\ RisingSent(q)
        /\ SentOf("rising", q)[1].prev > 0

\* C8: a rising alert is sent only when the latest PERSISTENCE_COUNT or more
\* successful samples were all over threshold; an under-threshold sample
\* zeroes the counter; from start-up, over, over, over alerts on the third
\* sample only, and over, over, under does not alert.
C8_PersistenceCorrect ==
    \A q \in Quantities :
        /\ RisingSent(q) => hwHist[q].run >= PERSISTENCE_COUNT
        /\ (hwObs.s.ok /\ ~SampleOver(q, hwObs.s)) => high_count[q] = 0
        /\ hwHist[q].fresh = "ooo" => hwHist[q].freshRisings = <<PERSISTENCE_COUNT>>
        /\ hwHist[q].fresh = "oou"
              => (hwHist[q].freshRisings = <<>> /\ high_count[q] = 0)

C8_Witness ==
    \E q \in Quantities : hwHist[q].fresh = "ooo" /\ RisingSent(q)

----------------------------------------------------------------------------
(***************************************************************************)
(* Properties of the cooldown gate, over every keyed alert path.           *)
(***************************************************************************)

\* The alert kinds that have a cooldown key: fee state change, CPU/RAM/load
\* rising alert, disk alert per mount, service alert.
KeyedKinds == {"fee", "rising", "disk", "service"}

\* C4: two alerts under the same key are never sent in iterations whose
\* timestamps differ by ALERT_COOLDOWN or less (in particular not in the
\* same iteration), whatever was observed in between.
C4_CooldownPerKey ==
    /\ \A i \in DOMAIN sent :
          sent[i].kind \in KeyedKinds
              => (sent[i].prev = 0 \/ sent[i].ts - sent[i].prev > ALERT_COOLDOWN)
    /\ \A i, j \in DOMAIN sent :
          (i < j /\ sent[i].kind \in KeyedKinds /\ sent[j].kind \in KeyedKinds)
              => sent[i].key # sent[j].key

\* A second alert under a key, after the window.
C4_Witness ==
    \E i \in DOMAIN sent :
        /\ sent[i].kind = "rising"
        /\ sent[i].prev > 0
        /\ sent[i].ts - sent[i].prev > ALERT_COOLDOWN

----------------------------------------------------------------------------
(***************************************************************************)
(* Properties of the service section (monitor_system_task, section 2).     *)
(***************************************************************************)

\* What the latest iteration saw for a service, and what was stored for it
\* when the iteration began.
SampleStatus(v) ==
    LET i == IF v = "lnd" THEN 1 ELSE 2
    IN  IF Len(svcObs.s.statuses) >= i THEN svcObs.s.statuses[i] ELSE "UNKNOWN"
StoredBefore(v) == IF v = "lnd" THEN svcObs.lndBefore ELSE svcObs.btcBefore

\* The latest iteration got a status sample that shows service v down
\* while another status was stored for it.
DownObserved(v) ==
    /\ svcObs.s.ok
    /\ SampleStatus(v) \in {"INACTIVE", "FAILED"}
    /\ SampleStatus(v) # StoredBefore(v)

\* The service alerts of the latest iteration about service v.
ServiceAlerts(v) ==
    SelectSeq(sent, LAMBDA a : a.kind = "service" /\ a.info.service = v)
DownAlerted(v) ==
    \E i \in DOMAIN ServiceAlerts(v) : ServiceAlerts(v)[i].info.what = "DOWN"

\* C11: a sample that shows a watched service INACTIVE or FAILED while the
\* stored status differs is followed, in the same iteration or a later one,
\* by a SERVICE DOWN alert for that service.
C11_NoDownMissed ==
    \A v \in Services : DownObserved(v) ~> DownAlerted(v)

\* The latest iteration got a sample that shows for service v a change the
\* section reports: down, or active again after a known status.
Reportable(v) ==
    /\ svcObs.s.ok
    /\ SampleStatus(v) # StoredBefore(v)
    /\ \/ SampleStatus(v) \in {"INACTIVE", "FAILED"}
       \/ SampleStatus(v) = "ACTIVE" /\ StoredBefore(v) # "UNKNOWN"

\* More than ALERT_COOLDOWN separates the latest iteration from the previous
\* alert about service v itself.
OwnWindowElapsed(v) ==
    svcObs.prevOf[v] = 0 \/ sys_now - svcObs.prevOf[v] > ALERT_COOLDOWN

\* C12: each cooldown timestamp belongs to one alert path.  The timestamp an
\* alert path consulted when it sent an alert is the time of that path's
\* own previous alert (0 when it has none), and an alert about one service
\* neither suppresses nor delays an alert about the other: a reportable
\* change of a service is reported as soon as that service's own window
\* has elapsed.
C12_TimestampPerPath ==
    /\ \A i \in DOMAIN sent :
          sent[i].since = IF sent[i].kind = "service"
                          THEN svcObs.prevOf[sent[i].info.service]
                          ELSE IF sent[i].kind = "recovery"
                          THEN lastKeyed[sent[i].key]
                          ELSE sent[i].prev
    /\ \A v \in Services :
          (Reportable(v) /\ OwnWindowElapsed(v)) => ServiceAlerts(v) # <<>>

----------------------------------------------------------------------------
(***************************************************************************)
(* Properties of the price section (surveillance_task, section 2).         *)
(***************************************************************************)

\* The primary volatility alerts and the follow-up messages of the latest
\* iteration.
VolatilityAlerts == SelectSeq(sent, LAMBDA m : m.kind = "volatility")
FollowUps == SelectSeq(sent, LAMBDA m : m.kind = "analysis")

\* The latest iteration evaluated the volatility and found a change of at
\* least PRICE_CHANGE_THRESHOLD_LOW against the historical price it used.
QualifyingChange ==
    /\ priceObs.ran /\ priceObs.evaluated
    /\ Abs(priceObs.usd - priceObs.old.usd) >= PRICE_CHANGE_THRESHOLD_LOW

\* More than PRICE_VOLATILITY_COOLDOWN separates the latest iteration from
\* the previous volatility alert (trivially so when there was none).
LongWindowElapsed ==
    priceObs.prevAlert = 0
        \/ surv_now - priceObs.prevAlert > PRICE_VOLATILITY_COOLDOWN

\* C13: a volatility alert is sent only in an iteration where the change
\* against the historical price is at least PRICE_CHANGE_THRESHOLD_LOW, the
\* reference the alert test reads is zero, and more than
\* PRICE_VOLATILITY_COOLDOWN has passed since the previous volatility alert.
C13_VolatilityGate ==
    VolatilityAlerts # <<>>
        => /\ QualifyingChange
           /\ priceObs.tested = 0
           /\ LongWindowElapsed

\* A second volatility alert.
C13_Witness ==
    VolatilityAlerts # <<>> /\ priceObs.prevAlert > 0

\* The most recent sample of the history that is older than the look-back
\* of 120 minutes (0 when there is none).
LatestOlderIndex(hist, now) ==
    LET older == {i \in 1..Len(hist) : hist[i].time < now - PriceLookback}
    IN  IF older = {} THEN 0
        ELSE CHOOSE i \in older : \A j \in older : j <= i

\* C14: the historical price an iteration compares with is the most recent
\* sample of the history older than now - 120 minutes; when the history
\* holds no such sample the iteration evaluates nothing (no reset, no
\* alert).
C14_MostRecentOlderSample ==
    (priceObs.ran /\ priceObs.ok)
        => LET i == LatestOlderIndex(PRICE_HISTORY, surv_now)
           IN  IF i = 0
               THEN /\ ~priceObs.evaluated
                    /\ VolatilityAlerts = <<>>
                    /\ LAST_VOLATILITY_REFERENCE_USD = priceObs.refBefore
               ELSE priceObs.evaluated => priceObs.old = PRICE_HISTORY[i]

\* The half of C14 the code does satisfy: without any sample older than the
\* look-back nothing is evaluated.
NothingOlderNothingEvaluated ==
    (priceObs.ran /\ priceObs.ok
        /\ LatestOlderIndex(PRICE_HISTORY, surv_now) = 0)
        => /\ ~priceObs.evaluated
           /\ VolatilityAlerts = <<>>
           /\ LAST_VOLATILITY_REFERENCE_USD = priceObs.refBefore

\* The price of the latest iteration lies within half the low threshold of
\* the reference the iteration started with, which was not zero.
NearReference ==
    /\ priceObs.refBefore # 0
    /\ 2 * Abs(priceObs.usd - priceObs.refBefore) < PRICE_CHANGE_THRESHOLD_LOW

\* The latest iteration started with a non-zero reference and its alert
\* test read a reference of zero: the reference was reset before the test.
ResetBeforeTest ==
    priceObs.refBefore # 0 /\ priceObs.tested = 0

\* C15: in every iteration that evaluates the volatility, the reference is
\* reset to zero before the alert test exactly when it is non-zero and the
\* current price lies within half of PRICE_CHANGE_THRESHOLD_LOW of it; an
\* iteration that evaluates nothing leaves the reference alone, and a
\* non-zero reference never becomes zero in any other way.
C15_ReferenceReset ==
    /\ (priceObs.ran /\ priceObs.evaluated)
            => (ResetBeforeTest <=> NearReference)
    /\ ~(priceObs.ran /\ priceObs.evaluated)
            => LAST_VOLATILITY_REFERENCE_USD = priceObs.refBefore
    /\ (priceObs.refBefore # 0 /\ LAST_VOLATILITY_REFERENCE_USD = 0)
            => (priceObs.ran /\ priceObs.evaluated /\ NearReference)

\* An evaluating iteration resets a non-zero reference.
C15_Witness ==
    priceObs.ran /\ priceObs.evaluated /\ ResetBeforeTest

\* The latest iteration comes after a volatility alert and after the
\* reference that alert had set was reset to zero (in this iteration or an
\* earlier one), and it finds a qualifying change.
QualifyingAfterReset ==
    /\ QualifyingChange
    /\ priceObs.prevAlert > 0
    /\ priceObs.tested = 0

\* C16 as stated: once the reference has been reset to zero, the next
\* iteration with a change of at least PRICE_CHANGE_THRESHOLD_LOW sends a
\* new volatility alert.
C16_AlertAfterReset ==
    QualifyingAfterReset => VolatilityAlerts # <<>>

\* C16: once the reference has been reset to zero, an iteration with a
\* change of at least PRICE_CHANGE_THRESHOLD_LOW sends a new volatility
\* alert exactly when more than PRICE_VOLATILITY_COOLDOWN has passed since
\* the previous volatility alert.
C16_AlertAfterResetAndWindow ==
    QualifyingAfterReset
        => (VolatilityAlerts # <<>>
                <=> surv_now - priceObs.prevAlert > PRICE_VOLATILITY_COOLDOWN)

\* A new alert after a reset, the long window having elapsed.
C16_Witness ==
    QualifyingAfterReset /\ VolatilityAlerts # <<>>

\* The latest iteration comes more than PRICE_VOLATILITY_COOLDOWN after a
\* volatility alert and finds a qualifying change.
QualifyingAfterWindow ==
    /\ QualifyingChange
    /\ priceObs.prevAlert > 0
    /\ surv_now - priceObs.prevAlert > PRICE_VOLATILITY_COOLDOWN

\* C17 as stated: after a volatility alert, once more than
\* PRICE_VOLATILITY_COOLDOWN has passed, an iteration with a qualifying
\* change sends a new alert, whether or not the price ever came back within
\* half the low threshold of the reference.
C17_AlertAfterWindow ==
    QualifyingAfterWindow => VolatilityAlerts # <<>>

\* C17: after a volatility alert, once more than PRICE_VOLATILITY_COOLDOWN
\* has passed, an iteration with a qualifying change sends a new alert
\* exactly when the reference its alert test reads is zero, that is when
\* an evaluating iteration since the alert found the price within half the
\* low threshold of the reference; while the price has not come back, no
\* alert is sent however long ago the previous one was.
C17_NoAlertWithoutReset ==
    QualifyingAfterWindow
        => /\ VolatilityAlerts # <<>> <=> priceObs.tested = 0
           /\ VolatilityAlerts = <<>> => ~priceHist.resetSeen

\* The long window has elapsed, the change qualifies, the reference was
\* never reset: no alert.
C17_Witness ==
    QualifyingAfterWindow /\ priceObs.tested # 0 /\ VolatilityAlerts = <<>>

\* C18: in every iteration that sends the primary volatility alert, whatever
\* the outcome of the contextual analysis, the primary alert is sent exactly
\* once and first, exactly one follow-up message is sent after it (the
\* fixed failure text when the analysis failed), and at the end of the
\* iteration the reference is the current price and the time of the last
\* volatility alert is the time of the iteration.
C18_AlertThenFollowUp ==
    VolatilityAlerts # <<>>
        => /\ Len(VolatilityAlerts) = 1
           /\ Len(FollowUps) = 1
           /\ \E i, j \in 1..Len(sent) :
                 /\ i < j
                 /\ sent[i].kind = "volatility"
                 /\ sent[j].kind = "analysis"
                 /\ sent[j].info.context = priceObs.analysis
           /\ LAST_VOLATILITY_REFERENCE_USD = priceObs.usd
           /\ last_price_volatility_alert_ts = surv_now

\* The same, for the iterations in which perform_contextual_analysis
\* returns (its text or the failure text).
AlertThenFollowUpWhenReturned ==
    (VolatilityAlerts # <<>> /\ priceObs.analysis # "raised")
        => C18_AlertThenFollowUp

\* C19: no failure inside an iteration ends surveillance_task.
C19_SurveillanceKeepsRunning ==
    survRunning

----------------------------------------------------------------------------
(***************************************************************************)
(* Properties of the hardware section under failures of its commands.      *)
(***************************************************************************)

\* The sampling of a quantity failed in the latest iteration: CPU and RAM
\* come from `top`, the load from `uptime` (which runs only after `top`
\* succeeded).
SamplingFailed(q) ==
    /\ probeObs.ran
    /\ IF q = "load" THEN ~probeObs.uptime ELSE ~probeObs.top

\* The counter, the flag and the timestamp of a quantity are what they
\* were when the latest iteration started, and no alert is about it.
QuantityUntouched(q) ==
    /\ high_count[q] = probeObs.count[q]
    /\ is_alert_active[q] = probeObs.active[q]
    /\ last_remote_alert[q] = probeObs.last[q]
    /\ \A i \in 1..Len(sent) : sent[i].key # q

\* C20: in an iteration in which the sampling of a quantity fails, the
\* counter, active flag and cooldown timestamp of that quantity end the
\* iteration with the values they started with, and no rising or recovery
\* alert about it is sent.
C20_FailedSamplePreservesState ==
    \A q \in Quantities : SamplingFailed(q) => QuantityUntouched(q)

\* The part of C20 that holds: a failure of `top` leaves the three
\* quantities untouched.
TopFailurePreservesState ==
    (probeObs.ran /\ ~probeObs.top)
        => \A q \in Quantities : QuantityUntouched(q)

\* A failure of `uptime` sends a load recovery alert.
RecoveryOnUptimeFailure ==
    /\ probeObs.ran /\ probeObs.top /\ ~probeObs.uptime
    /\ \E i \in 1..Len(sent) : sent[i].key = "load" /\ sent[i].kind = "recovery"

----------------------------------------------------------------------------
(***************************************************************************)
(* Properties of the fee level.                                            *)
(***************************************************************************)

\* C26: the level computed from a fee value is HIGH exactly when the value
\* is above FEE_MED_THRESHOLD, LOW exactly when it is at most
\* FEE_LOW_THRESHOLD and MEDIUM otherwise; NORMAL is never computed, the
\* stored level is always INIT, LOW, MEDIUM or HIGH, and no alert announces
\* the level NORMAL.
C26_FeeLevelAssignment ==
    /\ feeObs.ok =>
         /\ (feeObs.level = "HIGH" <=> feeObs.fee > FEE_MED_THRESHOLD)
         /\ (feeObs.level = "LOW" <=> feeObs.fee <= FEE_LOW_THRESHOLD)
         /\ (feeObs.level = "MEDIUM"
                <=> (feeObs.fee > FEE_LOW_THRESHOLD
                        /\ feeObs.fee <= FEE_MED_THRESHOLD))
         /\ feeObs.level # "NORMAL"
    /\ current_fee_state \in {"INIT", "LOW", "MEDIUM", "HIGH"}
    /\ \A i \in 1..Len(sent) :
         sent[i].kind = "fee" => sent[i].info.level \in {"LOW", "MEDIUM", "HIGH"}

\* A reading equal to FEE_MED_THRESHOLD is announced as MEDIUM.
C26_Witness ==
    /\ feeObs.ok /\ feeObs.fee = FEE_MED_THRESHOLD /\ feeObs.level = "MEDIUM"
    /\ \E i \in 1..Len(sent) : sent[i].kind = "fee" /\ sent[i].info.level = "MEDIUM"

----------------------------------------------------------------------------
(***************************************************************************)
(* Properties of monitor_lnd_task.                                         *)
(***************************************************************************)

\* The latest iteration listed the family successfully.
Listed(f) ==
    lndObs.ran /\ lndObs.client /\ lndObs.sample[f].ok

\* How many alerts of a kind the latest iteration sent about one entity.
CountAlerts(kind, what) ==
    Cardinality({i \in DOMAIN sent : sent[i].kind = kind /\ sent[i].info = what})

\* The entities of a family.
EntitiesOf(f) ==
    IF f = "peers" THEN PeerIds
    ELSE IF f = "channels" THEN ChannelPoints ELSE SettledPairs

\* C22: in an iteration that listed the peers (the channels) successfully,
\* exactly one connected (opened) alert is sent for each identifier listed
\* now and not in the previous successful listing, exactly one disconnected
\* (closed) alert for each identifier of the previous listing not listed
\* now, and none for any other identifier; and when the listing goes back
\* to the set it had before the previous change, what that change
\* announced as added is announced as removed, and conversely.
C22_SetDifference ==
    \A f \in {"peers", "channels"} :
        Listed(f) =>
            LET cur == lndObs.sample[f].ids
                before == lndObs.before[f]
                last == lndObs.prevDiff[f]
            IN  /\ \A x \in EntitiesOf(f) :
                     /\ CountAlerts(AddedKind(f), x)
                            = IF x \in cur \ before THEN 1 ELSE 0
                     /\ CountAlerts(RemovedKind(f), x)
                            = IF x \in before \ cur THEN 1 ELSE 0
                /\ cur = last.from
                     => /\ Announced(sent, RemovedKind(f)) = last.added
                        /\ Announced(sent, AddedKind(f)) = last.removed

\* A listing returns to the set it had two listings ago, after a change
\* that had both added and removed an identifier.
C22_Witness ==
    \E f \in {"peers", "channels"} :
        /\ Listed(f)
        /\ lndObs.sample[f].ids = lndObs.prevDiff[f].from
        /\ lndObs.prevDiff[f].added # {}
        /\ lndObs.prevDiff[f].removed # {}
        /\ Announced(sent, RemovedKind(f)) # {}

\* The snapshot variable of a family.
SnapshotOf(f) ==
    IF f = "peers" THEN prev_peers
    ELSE IF f = "channels" THEN prev_channels ELSE prev_settled_invoices

\* C23: at the end of an iteration that listed a family successfully the
\* snapshot of the family is the set listed in that iteration (at any time
\* it is the set of the latest successful listing), and an entity present
\* in two successive successful listings is not announced as new in the
\* second.
C23_SnapshotReplacement ==
    \A f \in LndFamilies :
        /\ SnapshotOf(f) = lndHist.listed[f]
        /\ Listed(f) =>
             /\ SnapshotOf(f) = lndObs.sample[f].ids
             /\ \A x \in lndObs.sample[f].ids \cap lndObs.before[f] :
                    CountAlerts(AddedKind(f), x) = 0

\* An entity stays and another one leaves between two successful listings.
C23_Witness ==
    \E f \in LndFamilies :
        /\ Listed(f)
        /\ lndObs.sample[f].ids \cap lndObs.before[f] # {}
        /\ lndObs.before[f] \ lndObs.sample[f].ids # {}

\* C25: while the LND client cannot be created or a list RPC keeps failing,
\* the alerts about that failure do not repeat inside the cooldown window:
\* an error alert is sent only when none was sent about the same source
\* before, or more than ALERT_COOLDOWN seconds ago.
C25_NoErrorFlood ==
    \A i \in DOMAIN sent :
        sent[i].kind = "lnd_error"
            => (sent[i].prev = 0 \/ sent[i].ts - sent[i].prev > ALERT_COOLDOWN)

\* C30: in an iteration that listed the invoices successfully, exactly one
\* alert is sent for each settled (hash, value) pair whose hash is not a
\* hash of the previous successful listing, and no alert for any other
\* pair: none for a hash seen before whatever its amount, none for an
\* invoice that left the settled set.
C30_InvoicesByHash ==
    Listed("invoices") =>
        /\ \A x \in SettledPairs :
             CountAlerts("invoice_settled", x)
                = IF x \in lndObs.sample["invoices"].ids
                       /\ x[1] \notin HashesOf(lndObs.before["invoices"])
                  THEN 1 ELSE 0
        /\ \A i \in DOMAIN sent :
             sent[i].key = "invoices" => sent[i].kind = "invoice_settled"

\* An invoice comes back with another amount while another one leaves the
\* settled set: nothing is sent.
C30_Witness ==
    /\ Listed("invoices")
    /\ \E x \in lndObs.sample["invoices"].ids :
         /\ x \notin lndObs.before["invoices"]
         /\ x[1] \in HashesOf(lndObs.before["invoices"])
    /\ \E y \in lndObs.before["invoices"] :
         y[1] \notin HashesOf(lndObs.sample["invoices"].ids)
    /\ sent = <<>>

----------------------------------------------------------------------------
(***************************************************************************)
(* Properties of the privileged commands.                                  *)
(***************************************************************************)

\* C28: a restart command from a chat other than CHAT_ID gets exactly one
\* reply, the denial, and runs no remote command; every remote restart
\* command ever run was asked for from the chat CHAT_ID.
C28_PrivilegedRestart ==
    /\ (cmdObs.ran /\ cmdObs.chat # CHAT_ID)
          => /\ replies = <<"access_denied">>
             /\ Len(remote_log) = cmdObs.logBefore
    /\ \A i \in DOMAIN remote_log : remote_log[i].chat = CHAT_ID
    /\ (cmdObs.ran /\ cmdObs.chat = CHAT_ID)
          => /\ Len(remote_log) = cmdObs.logBefore + 1
             /\ remote_log[Len(remote_log)].command
                    = (IF cmdObs.service = "lnd" THEN "sudo systemctl restart lnd"
                       ELSE "sudo systemctl restart bitcoin")

\* A foreign chat is denied after the owner's chat had restarted a service.
C28_Witness ==
    /\ cmdObs.ran /\ cmdObs.chat # CHAT_ID
    /\ replies = <<"access_denied">>
    /\ remote_log # <<>>

----------------------------------------------------------------------------
(***************************************************************************)
(* Properties of the rolling histories.                                    *)
(***************************************************************************)

\* Every entry of a history is younger than the window at the time of the
\* latest call, and not from after it.
WithinWindow(hist, at, window) ==
    \A i \in DOMAIN hist : hist[i].time <= at /\ at - hist[i].time < window

\* The entries are in non-decreasing order of time.
OrderedByTime(hist) ==
    \A i, j \in DOMAIN hist : i < j => hist[i].time <= hist[j].time

\* C29: after every call of update_fee_history each entry of FEE_HISTORY is
\* younger than 3600 s, after every call of update_price_history each entry
\* of PRICE_HISTORY is younger than 4 hours, and, the clock never stepping
\* back, both histories are in non-decreasing order of time with the sample
\* of the latest call last.
C29_HistoriesBoundedOrdered ==
    /\ WithinWindow(FEE_HISTORY, histObs.fee.at, 3600)
    /\ WithinWindow(PRICE_HISTORY, histObs.price.at, 4 * 3600)
    /\ OrderedByTime(FEE_HISTORY)
    /\ OrderedByTime(PRICE_HISTORY)
    /\ histObs.fee.calls > 0
          => /\ FEE_HISTORY # <<>>
             /\ FEE_HISTORY[Len(FEE_HISTORY)]
                    = [time |-> histObs.fee.at, fee |-> histObs.fee.value]
    /\ histObs.price.calls > 0
          => /\ PRICE_HISTORY # <<>>
             /\ PRICE_HISTORY[Len(PRICE_HISTORY)]
                    = [time |-> histObs.price.at, usd |-> histObs.price.value]

\* A fee sample has been dropped for its age while the price history still
\* holds two samples.
C29_Witness ==
    /\ histObs.fee.calls > Len(FEE_HISTORY)
    /\ Len(PRICE_HISTORY) >= 2
    /\ PRICE_HISTORY[1].time < PRICE_HISTORY[2].time

----------------------------------------------------------------------------
(***************************************************************************)
(* Properties of the periodic macro report.                                *)
(***************************************************************************)

\* The macro reports the latest iteration posted.
MacroReports == SelectSeq(sent, LAMBDA a : a.kind = "macro")

\* C24: the macro analysis is called only in an iteration that comes more
\* than MACRO_REPORT_COOLDOWN after the time the timer holds; in every such
\* iteration the timer ends equal to the time of the iteration, whatever
\* the call gave; a report is posted only for a text without sentinel; and
\* two calls are more than MACRO_REPORT_COOLDOWN apart.
C24_MacroGate ==
    /\ macroObs.called
          => /\ surv_now - macroObs.timer > 86400
             /\ LAST_MACRO_REPORT_TS = surv_now
             /\ macroObs.prevCall > 0 => surv_now - macroObs.prevCall > 86400
    /\ MacroReports # <<>>
          => /\ macroObs.called
             /\ macroObs.text \notin {"failed", "nothing_new"}
             /\ Len(MacroReports) = 1

\* The same, for the iterations in which perform_contextual_analysis
\* returns, together with the converse: a text without sentinel is posted.
MacroGateWhenReturned ==
    /\ (macroObs.called /\ macroObs.text # "raised")
          => /\ surv_now - macroObs.timer > 86400
             /\ LAST_MACRO_REPORT_TS = surv_now
             /\ macroObs.prevCall > 0 => surv_now - macroObs.prevCall > 86400
             /\ macroObs.text \in {"report", "unavailable"} => Len(MacroReports) = 1
    /\ MacroReports # <<>>
          => macroObs.called /\ macroObs.text \in {"report", "unavailable"}

\* A second macro call, suppressed by the novelty filter.
SecondMacroCall ==
    macroObs.called /\ macroObs.prevCall > 0 /\ macroObs.text = "nothing_new"

----------------------------------------------------------------------------
(***************************************************************************)
(* Properties of alert delivery.                                           *)
(***************************************************************************)

\* The send_alert calls of the latest iteration, by kind and quantity.
CallsMade == [i \in DOMAIN sent |-> [kind |-> sent[i].kind, key |-> sent[i].key]]

\* C21: after every iteration the counters, flags and timestamps of the
\* three debouncers, and the send_alert calls of the iteration, are those of
\* the run over the same samples in which every delivery succeeds; and no
\* call of an iteration repeats an alert whose delivery failed in the
\* iteration before.
C21_DeliveryFailureNoEffect ==
    scope = "delivery"
       => /\ \A q \in Quantities :
                /\ high_count[q] = shadow[q].count
                /\ is_alert_active[q] = shadow[q].active
                /\ last_remote_alert[q] = shadow[q].last
          /\ CallsMade = shadowSent
          /\ Len(delivered) = Len(sent)
          /\ \A i \in DOMAIN sent : CallsMade[i] \notin prevFailed

\* The delivery of the rising CPU alert failed in the iteration before, and
\* the latest iteration read the CPU over its threshold again.
C21_Witness ==
    /\ scope = "delivery"
    /\ [kind |-> "rising", key |-> "cpu"] \in prevFailed
    /\ hwObs.s.ok /\ hwObs.s.cpu_pct >= 80
    /\ is_alert_active["cpu"]

----------------------------------------------------------------------------
(***************************************************************************)
(* Properties of the interleaving of tasks and command handlers.           *)
(***************************************************************************)

\* The state objects of each task.
SurveillanceState ==
    <<current_fee_state, last_fee_alert_ts, FEE_HISTORY, PRICE_HISTORY,
      LAST_VOLATILITY_REFERENCE_USD, last_price_volatility_alert_ts,
      LAST_MACRO_REPORT_TS>>
SystemState ==
    <<high_count, is_alert_active, last_remote_alert, last_remote_disk_alert,
      last_lnd_service_status, last_btc_service_status, last_service_alert_ts>>
LndState == <<prev_peers, prev_channels, prev_settled_invoices>>

\* C27: in every step of every interleaving of the three tasks and the
\* command handlers, a state object that changes is changed by the one task
\* it belongs to: the fee level, histories, volatility reference, macro
\* timer and their timestamps by surveillance_task, the counters, flags,
\* service statuses and timestamps by monitor_system_task, the snapshots by
\* monitor_lnd_task.
C27_SingleWriter ==
    [][scope = "tasks"
         => /\ SurveillanceState' # SurveillanceState
                  => actor' = "surveillance_task"
            /\ SystemState' # SystemState => actor' = "monitor_system_task"
            /\ LndState' # LndState => actor' = "monitor_lnd_task"]_vars

\* The three tasks have each changed their state, and a /price command ran
\* while PRICE_HISTORY held a sample.
C27_Witness ==
    /\ scope = "tasks"
    /\ actor = "price_cmd"
    /\ PRICE_HISTORY # <<>> /\ FEE_HISTORY # <<>>
    /\ current_fee_state # "INIT"
    /\ \E q \in Quantities : high_count[q] > 0
    /\ prev_peers # {}

----------------------------------------------------------------------------
(***************************************************************************)
(* Invariant of the three debouncers between iterations.                   *)
(***************************************************************************)

\* C34: for CPU, RAM and load, between iterations: an active flag comes
\* with a counter of at least PERSISTENCE_COUNT, and the counter is 0
\* whenever the latest successful sample read the quantity under its
\* threshold.
C34_DebouncerInvariant ==
    \A q \in Quantities :
        /\ is_alert_active[q] => high_count[q] >= 3
        /\ hwHist[q].run = 0 => high_count[q] = 0

\* The CPU alert is active after a fourth consecutive sample over the
\* threshold, the latest section having failed to sample.
C34_Witness ==
    /\ is_alert_active["cpu"]
    /\ high_count["cpu"] = 4
    /\ sysCycles > 4
    /\ ~hwObs.s.ok

----------------------------------------------------------------------------
(***************************************************************************)
(* Rising alerts held back by the cooldown.                                *)
(***************************************************************************)

\* C33: for CPU, RAM and load: a run of consecutive over-threshold samples
\* sends at most one rising alert; at a sample of the run from the
\* PERSISTENCE_COUNT-th on, the rising alert is sent exactly when the run
\* has sent none yet and more than ALERT_COOLDOWN has passed since the
\* quantity's previous rising alert, so that an alert held back by the
\* cooldown goes out at the first later sample of the run at which the
\* cooldown has elapsed; and the sample that ends a run which sent no rising
\* alert sends neither a rising nor a recovery alert.
C33_DeferredRising ==
    \A q \in Quantities :
        /\ hwHist[q].risingInRun <= 1
        /\ (hwObs.s.ok /\ SampleOver(q, hwObs.s) /\ hwHist[q].run >= 3)
              => /\ RisingSent(q)
                    => /\ hwHist[q].risingInRun = 1
                       /\ sys_now - SentOf("rising", q)[1].prev > 300
                 /\ (~RisingSent(q) /\ hwHist[q].risingInRun = 0)
                       => sys_now - lastKeyed[q] <= 300
        /\ (hwObs.s.ok /\ SampleOver(q, hwObs.s) /\ hwHist[q].run < 3)
              => ~RisingSent(q)
        /\ (hwObs.ended[q].len > 0 /\ hwObs.ended[q].rising = 0)
              => ~RisingSent(q) /\ ~RecoverySent(q)

\* The CPU run reached PERSISTENCE_COUNT samples inside the cooldown of the
\* previous rising alert, and its rising alert goes out at its fifth sample.
C33_Witness ==
    /\ hwHist["cpu"].run = 5
    /\ RisingSent("cpu")
    /\ SentOf("rising", "cpu")[1].prev > 0

\* A CPU run of PERSISTENCE_COUNT samples, held back by the cooldown, ends
\* without any alert.
BlockedRunEnded ==
    /\ hwObs.ended["cpu"].len >= 3
    /\ hwObs.ended["cpu"].rising = 0

----------------------------------------------------------------------------
(***************************************************************************)
(* Fee level changes held back by the cooldown.                            *)
(***************************************************************************)

\* C32: a successful sample whose level differs from the stored level (not
\* INIT), taken no more than ALERT_COOLDOWN after the last fee alert, sends
\* nothing and leaves the stored level and last_fee_alert_ts as they were;
\* taken more than ALERT_COOLDOWN after it, so in the first such iteration
\* when the samples keep differing from the stored level, it sends the alert
\* of its level, stores the level and sets last_fee_alert_ts to the time of
\* the iteration.
C32_DeferredFeeTransition ==
    (feeObs.ok /\ feeObs.before # "INIT" /\ feeObs.level # feeObs.before)
        => IF surv_now - feeObs.prevAlert > 300
           THEN /\ FeeLevelsSent = <<feeObs.level>>
                /\ current_fee_state = feeObs.level
                /\ last_fee_alert_ts = surv_now
           ELSE /\ FeeLevelsSent = <<>>
                /\ current_fee_state = feeObs.before
                /\ last_fee_alert_ts = feeObs.prevAlert

\* A change to HIGH was held back at the previous sample, 300 seconds after
\* the last fee alert; the next sample reads HIGH again and is alerted.
C32_Witness ==
    /\ feeObs.ok /\ feeObs.pending
    /\ feeObs.prevLevel = "HIGH" /\ feeObs.level = "HIGH"
    /\ feeObs.before # "HIGH"
    /\ feeObs.prevAlert > 0
    /\ surv_now - feeObs.prevAlert = 600
    /\ FeeLevelsSent = <<"HIGH">>

----------------------------------------------------------------------------
(***************************************************************************)
(* The age a price sample needs before the volatility is evaluated.        *)
(***************************************************************************)

\* The smallest timestamp in a history that is not empty.
OldestTime(hist) ==
    CHOOSE t \in {hist[i].time : i \in DOMAIN hist} :
        \A i \in DOMAIN hist : t <= hist[i].time

\* C37: an iteration that starts less than 120 minutes after the timestamp
\* of the oldest sample PRICE_HISTORY holds, and so any iteration less than
\* 120 minutes after the first successful price sample, sends no volatility
\* alert and leaves LAST_VOLATILITY_REFERENCE_USD as it was.
C37_NoAlertBeforeLookback ==
    /\ (priceObs.ran /\ PRICE_HISTORY # <<>>
          /\ surv_now - OldestTime(PRICE_HISTORY) < 7200)
          => /\ VolatilityAlerts = <<>>
             /\ LAST_VOLATILITY_REFERENCE_USD = priceObs.refBefore
    /\ (priceObs.ran /\ priceHist.firstSample > 0
          /\ surv_now - priceHist.firstSample < 7200)
          => /\ VolatilityAlerts = <<>>
             /\ LAST_VOLATILITY_REFERENCE_USD = priceObs.refBefore

\* The fee level is known and the price moved by $2,000 from the first
\* sample, taken in the previous iteration: nothing is sent.
C37_Witness ==
    /\ priceObs.ran /\ priceObs.ok /\ priceObs.feeState # "INIT"
    /\ Len(PRICE_HISTORY) >= 2
    /\ priceHist.firstSample = OldestTime(PRICE_HISTORY)
    /\ surv_now - priceHist.firstSample = 298
    /\ Abs(priceObs.usd - PRICE_HISTORY[1].usd) = 2000
    /\ VolatilityAlerts = <<>>

----------------------------------------------------------------------------
(***************************************************************************)
(* What the price and macro sections owe to the fee level.                 *)
(***************************************************************************)

\* C31: an iteration whose price section runs while the fee level is INIT
\* sends no volatility alert and no follow-up, whatever the price samples;
\* an iteration whose macro section runs while the fee level is INIT calls
\* no analysis and posts no report; and every macro analysis call comes
\* more than 24 hours after the iteration in which the fee level left INIT.
C31_FeeMachineGates ==
    /\ (scope = "price" /\ priceObs.ran /\ priceObs.feeState = "INIT")
          => VolatilityAlerts = <<>> /\ FollowUps = <<>>
    /\ (scope = "macro" /\ macroObs.ran /\ current_fee_state = "INIT")
          => ~macroObs.called /\ MacroReports = <<>>
    /\ (scope = "macro" /\ macroObs.called)
          => macroHist.init > 0 /\ surv_now - macroHist.init > 86400

\* No fee sample has succeeded yet, and the price moved by at least $1,000
\* from a sample older than 120 minutes, with no reference set: the
\* iteration sends nothing.
C31_Witness ==
    /\ scope = "price" /\ priceObs.ran /\ priceObs.feeState = "INIT"
    /\ priceObs.evaluated /\ priceObs.tested = 0
    /\ Abs(priceObs.usd - priceObs.old.usd) >= 1000
    /\ sent = <<>>

\* The first macro analysis call, 24 hours and 5 minutes after the fee
\* level left INIT.
FirstMacroCall ==
    /\ scope = "macro" /\ macroObs.called /\ macroHist.calls = 1
    /\ surv_now - macroHist.init = 86700

----------------------------------------------------------------------------
(***************************************************************************)
(* Pairing of the SERVICE UP alerts with the SERVICE DOWN alerts.          *)
(***************************************************************************)

UpAlerted(v) ==
    \E i \in DOMAIN ServiceAlerts(v) : ServiceAlerts(v)[i].info.what = "UP"

\* C35 as stated: whatever the status tokens, the latest alert about a
\* service before a SERVICE UP alert for it is a SERVICE DOWN alert.
C35_UpAfterDown ==
    \A v \in Services : UpAlerted(v) => svcObs.prevWhat[v] = "DOWN"

\* C35, amended: a SERVICE UP alert is sent for a service only when the
\* status stored for it is neither ACTIVE nor UNKNOWN; when that status is
\* INACTIVE or FAILED, the latest alert about the service is its SERVICE
\* DOWN alert; and a sample that reads ACTIVE while UNKNOWN is stored sends
\* nothing about the service.
C35_UpAfterDownOrTransient ==
    \A v \in Services :
        /\ UpAlerted(v)
              => /\ StoredBefore(v) \notin {"ACTIVE", "UNKNOWN"}
                 /\ StoredBefore(v) \in {"INACTIVE", "FAILED"}
                       => svcObs.prevWhat[v] = "DOWN"
        /\ (svcObs.s.ok /\ SampleStatus(v) = "ACTIVE"
              /\ StoredBefore(v) = "UNKNOWN")
              => ServiceAlerts(v) = <<>>

\* LND is reported up again after its SERVICE DOWN alert.
C35_Witness ==
    /\ UpAlerted("lnd")
    /\ StoredBefore("lnd") = "FAILED"
    /\ svcObs.prevWhat["lnd"] = "DOWN"
    /\ svcObs.prevOf["lnd"] > 0

----------------------------------------------------------------------------
(***************************************************************************)
(* The first successful listing of a family.                               *)
(***************************************************************************)

\* C36: in the first iteration that lists a family (peers, channels,
\* settled invoices) successfully, one connected, opened or settled alert is
\* sent for every entity of the listing and no other alert about the
\* family.
C36_NoSilentBaseline ==
    \A f \in LndFamilies :
        (Listed(f) /\ ~lndObs.seenBefore[f])
            => /\ \A x \in EntitiesOf(f) :
                     CountAlerts(AddedKind(f), x)
                        = IF x \in lndObs.sample[f].ids THEN 1 ELSE 0
               /\ Announced(sent, RemovedKind(f)) = {}

\* After an iteration that failed to list the peers, the first successful
\* listing holds two peers and both are announced.
C36_Witness ==
    /\ Listed("peers") /\ ~lndObs.seenBefore["peers"]
    /\ lndCycles >= 2
    /\ lndObs.sample["peers"].ids = PeerIds
    /\ Announced(sent, "peer_connected") = PeerIds
    /\ Len(sent) = 2

=============================================================================
